---- MODULE Spec2Model ----
(***************************************************************************)
(* Statix: LiveRoster fan-out, broker ingest, the node/metric store and    *)
(* the identity core, modelled as state machines.                          *)
(*                                                                         *)
(* Each subsystem has its own specification (SpecRoster, SpecRosterFair,  *)
(* SpecStore, SpecAuth, SpecAuthRace, SpecSession, SpecAccess,             *)
(* SpecMetricsRead, SpecAgent, SpecAgentFair); the variables of the other  *)
(* subsystems stay unchanged.                                              *)
(***************************************************************************)
EXTENDS Integers, Sequences, FiniteSets, TLC

(***************************************************************************)
(* Bounds of the model                                                     *)
(***************************************************************************)
MaxSockets == 1
MaxChanges == 2
MaxNodes == 1
MaxDeliveries == 2
MaxUsers == 2
MaxTokens == 2
MaxSessions == 1
MaxNow == 2
MaxFailedLogins == 1
MaxInFlight == 2
MaxRefreshes == 1
MaxAgentNow == 4
MaxRequests == 2

Sockets == 1..MaxSockets

VARIABLES
  \* ---- realtime/nodes.ts ----
  clients,          \* the module-level Set<WebSocket>
  broadcastTimer,   \* TRUE iff the module-level handle is not null
  timers,           \* setTimeout callbacks waiting in the event loop
  readyState,       \* ws.readyState of every socket ("NONE" before the upgrade)
  reads,            \* awaited listNodes() calls of the roster (from: store version at the call)
  frames,           \* the frames each socket has been sent, in order
  storeVer,         \* version of the committed store state the roster reads
  burst,            \* history: markNodesChanged calls since the timer was set
  bhist             \* history: one record per fired broadcast timer

rosterVars == <<clients, broadcastTimer, timers, readyState, reads, frames,
                storeVer, burst, bhist>>

VARIABLES
  \* ---- the database (store/prisma.ts, prisma/migrations) ----
  now,              \* the server clock (CURRENT_TIMESTAMP, new Date()) of the window
  nodeRows,         \* table Node: id -> [createdAt, lastSeenAt, authTokenHash]
  nextNodeId,       \* ids are fresh ULIDs: never reused
  metrics,          \* table metrics in commit order: [id, nodeId, ts, createdAt, seq]
  nextMetricId,     \* BIGSERIAL
  systemInfo,       \* table node_system_info: nodeId -> [hash, reportedTs, updatedAt]
  \* ---- broker ingest (ingest/mqtt.ts, ingest/handler.ts) ----
  delivered,        \* messages the broker has delivered so far
  inflight,         \* handleMqttMessage calls suspended at an await
  cascaded,         \* history: rows the last node deletion removed by cascade
  lastTs,           \* history: nodeId -> {payload ts of its last committed ingest}
  dropped           \* history: the messages whose handler ended at a console.warn

storeVars == <<now, nodeRows, nextNodeId, metrics, nextMetricId, systemInfo,
               delivered, inflight, cascaded, lastTs, dropped>>

VARIABLES
  \* ---- identity (store/prisma.ts, routes/auth.ts, prestart/prestart.ts) ----
  users,            \* table User: id -> [email, emailNormalized, passwordHash, isDisabled, failedLoginCount]
  nextUserId,       \* ids are fresh: never reused
  roleRows,         \* table Role: the names that exist
  userRoles,        \* table UserRole: <<userId, role name>>
  authTokens,       \* table AuthToken (RESET_PASSWORD rows)
  nextTokenId,      \* the next random token value
  sessions,         \* table Session
  nextSessionId,    \* the next random session token value
  rolePermissions,  \* table RolePermission: <<role name, permission code>>
  prestartRan,      \* history: runPrestart has completed at least once
  spent,            \* history: token values a set-password has succeeded with
  requests,         \* request handlers between two awaited store calls
  passwordSets      \* history: per token value, the password writes of such requests

authVars == <<users, nextUserId, roleRows, userRoles, authTokens, nextTokenId,
              sessions, nextSessionId, rolePermissions, prestartRan, spent,
              requests, passwordSets>>

VARIABLES
  \* ---- the agent (apps/node/src/index.ts) ----
  pc,               \* where main() is: "start", "exchange", "session", "sleep", "stopped"
  stopRequested,    \* main: let stopRequested
  nextCredentials,  \* main: let nextCredentials
  credentials,      \* runSession: the credentials parameter
  rotateTo,         \* runSession: let rotateTo
  client,           \* the MqttClient: "none", "connecting", "connected", "ending", "closed"
  publishTimer,     \* runSession: TRUE iff the handle is not null
  systemInfoTimer,  \* runSession: TRUE iff the handle is not null
  refreshTimer,     \* runSession: TRUE iff the handle is not null
  publishInFlight,  \* runSession: let publishInFlight
  systemInfoInFlight,         \* runSession: let systemInfoInFlight
  lastSystemInfoHash,         \* runSession: let lastSystemInfoHash
  lastSystemInfoPublishedAt,  \* runSession: let lastSystemInfoPublishedAt
  systemInfoCall,   \* the publishSystemInfoIfNeeded call suspended at an await
  refreshes,        \* refresh callbacks of this session awaiting refreshCredentials()
  staleRefreshes,   \* the same of sessions that have ended: the credentials of each
  agentNow,         \* Date.now() of the agent
  metricsInFlight,  \* history: publishOnce bodies of this session past the guard
  returned,         \* history: the differing credentials a re-exchange returned last
  startedFrom       \* history: where the session's credentials came from

agentVars == <<pc, stopRequested, nextCredentials, credentials, rotateTo, client,
               publishTimer, systemInfoTimer, refreshTimer, publishInFlight,
               systemInfoInFlight, lastSystemInfoHash, lastSystemInfoPublishedAt,
               systemInfoCall, refreshes, staleRefreshes, agentNow,
               metricsInFlight, returned, startedFrom>>

vars == <<rosterVars, storeVars, authVars, agentVars>>

\* What the roster actions leave alone.
nonRoster == <<storeVars, authVars, agentVars>>

(***************************************************************************)
(* LiveRoster (src/apps/api/src/realtime/nodes.ts)                         *)
(***************************************************************************)
NoSocket == 0

\* Mutant of sendJson: the readyState check is missing.
SendJson_NoCheck(fr, ws, payload) == [fr EXCEPT ![ws] = Append(@, payload)]

\* sendJson: a socket that is not OPEN is skipped silently.
SendJson(fr, ws, payload) ==
  IF readyState[ws] # "OPEN" THEN fr ELSE [fr EXCEPT ![ws] = Append(@, payload)]

\* The loop of broadcastSnapshot over the clients set.
SendToClients(fr, payload) ==
  [s \in Sockets |-> IF s \in clients THEN SendJson(fr, s, payload)[s] ELSE fr[s]]

\* Mutant of markNodesChanged: the pending-timer early return is missing.
MarkNodesChanged_NoGuard ==
  /\ broadcastTimer' = TRUE
  /\ timers' = timers + 1

\* markNodesChanged: schedule one broadcast unless one is pending.
MarkNodesChanged ==
  IF broadcastTimer
    THEN UNCHANGED <<broadcastTimer, timers>>
    ELSE /\ broadcastTimer' = TRUE
         /\ timers' = timers + 1

\* wss.on("connection"): add to clients, start the initial snapshot read.
WsConnection(s) ==
  /\ readyState[s] = "NONE"
  /\ readyState' = [readyState EXCEPT ![s] = "OPEN"]
  /\ clients' = clients \cup {s}
  /\ reads' = reads \cup {[kind |-> "initial", ws |-> s, bid |-> 0, from |-> storeVer]}
  /\ UNCHANGED <<broadcastTimer, timers, frames, storeVer, burst, bhist>>
  /\ UNCHANGED nonRoster

\* The closing handshake starts: the socket is no longer OPEN, the close
\* event has not been emitted yet.
WsClosing(s) ==
  /\ readyState[s] = "OPEN"
  /\ readyState' = [readyState EXCEPT ![s] = "CLOSING"]
  /\ UNCHANGED <<clients, broadcastTimer, timers, reads, frames, storeVer,
                 burst, bhist>>
  /\ UNCHANGED nonRoster

\* ws.on("close"): the socket leaves the clients set.
WsCloseEvent(s) ==
  /\ readyState[s] \in {"OPEN", "CLOSING"}
  /\ readyState' = [readyState EXCEPT ![s] = "CLOSED"]
  /\ clients' = clients \ {s}
  /\ UNCHANGED <<broadcastTimer, timers, reads, frames, storeVer, burst, bhist>>
  /\ UNCHANGED nonRoster

\* A committed change of the store signals the roster.
RosterSignal ==
  /\ storeVer < MaxChanges
  /\ storeVer' = storeVer + 1
  /\ MarkNodesChanged
  /\ burst' = IF timers = 0 THEN 1 ELSE burst + 1
  /\ UNCHANGED <<clients, readyState, reads, frames, bhist>>
  /\ UNCHANGED nonRoster

\* Mutant of the setTimeout callback: the handle is not cleared.
BroadcastTimerCallback_KeepsHandle ==
  /\ timers > 0
  /\ timers' = timers - 1
  /\ broadcastTimer' = broadcastTimer
  /\ reads' = IF clients = {}
                THEN reads
                ELSE reads \cup {[kind |-> "broadcast", ws |-> NoSocket,
                                  bid |-> Len(bhist) + 1, from |-> storeVer]}

\* The setTimeout callback: clear the handle, then broadcastSnapshot up to
\* its await (an empty clients set returns before any read).
BroadcastTimerCallback ==
  /\ timers > 0
  /\ timers' = timers - 1
  /\ broadcastTimer' = FALSE
  /\ reads' = IF clients = {}
                THEN reads
                ELSE reads \cup {[kind |-> "broadcast", ws |-> NoSocket,
                                  bid |-> Len(bhist) + 1, from |-> storeVer]}

\* The broadcast timer fires in the roster.
BroadcastTimerFire ==
  /\ BroadcastTimerCallback
  /\ bhist' = Append(bhist, [n |-> burst,
                             status |-> IF clients = {} THEN "skipped" ELSE "reading",
                             sentTo |-> {}])
  /\ UNCHANGED <<clients, readyState, frames, storeVer, burst>>
  /\ UNCHANGED nonRoster

\* listNodes() resolves with the store state committed at some moment of the
\* await; sendSnapshot / broadcastSnapshot continue.
ReadOk(r) ==
  /\ r \in reads
  /\ reads' = reads \ {r}
  /\ \E v \in r.from..storeVer :
     LET payload == [kind |-> r.kind, bid |-> r.bid, ver |-> v] IN
     IF r.kind = "initial"
       THEN /\ frames' = SendJson(frames, r.ws, payload)
            /\ bhist' = bhist
       ELSE /\ frames' = SendToClients(frames, payload)
            /\ bhist' = [bhist EXCEPT ![r.bid] =
                           [@ EXCEPT !.status = "sent",
                                     !.sentTo = {s \in clients : readyState[s] = "OPEN"}]]
  /\ UNCHANGED <<clients, broadcastTimer, timers, readyState, storeVer, burst>>
  /\ UNCHANGED nonRoster

\* listNodes() rejects: the error is logged, nothing is sent.
ReadFail(r) ==
  /\ r \in reads
  /\ reads' = reads \ {r}
  /\ bhist' = IF r.kind = "broadcast"
                THEN [bhist EXCEPT ![r.bid] = [@ EXCEPT !.status = "failed"]]
                ELSE bhist
  /\ UNCHANGED <<clients, broadcastTimer, timers, readyState, frames, storeVer, burst>>
  /\ UNCHANGED nonRoster

InitRoster ==
  /\ clients = {}
  /\ broadcastTimer = FALSE
  /\ timers = 0
  /\ readyState = [s \in Sockets |-> "NONE"]
  /\ reads = {}
  /\ frames = [s \in Sockets |-> <<>>]
  /\ storeVer = 0
  /\ burst = 0
  /\ bhist = <<>>

NextRoster ==
  \/ \E s \in Sockets : WsConnection(s)
  \/ \E s \in Sockets : WsClosing(s)
  \/ \E s \in Sockets : WsCloseEvent(s)
  \/ RosterSignal
  \/ BroadcastTimerFire
  \/ \E r \in reads : ReadOk(r)
  \/ \E r \in reads : ReadFail(r)

(***************************************************************************)
(* Store (src/apps/api/src/store/prisma.ts, prisma/migrations)             *)
(***************************************************************************)
NodeIds == 1..MaxNodes
Hashes == {"h1", "h2"}
Topics == {"metrics", "system", "other"}
Bodies == {"malformed", "invalid", "valid"}

\* toBigInt: a negative (or non-finite) number becomes 0.
ToBigInt(value) == IF value < 0 THEN 0 ELSE value

\* FOREIGN KEY metrics.nodeId REFERENCES Node(id): the insert is accepted iff
\* the Node row exists.
metrics_nodeId_fkey(nodeId) == nodeId \in DOMAIN nodeRows

\* FOREIGN KEY node_system_info.nodeId REFERENCES Node(id).
node_system_info_nodeId_fkey(nodeId) == nodeId \in DOMAIN nodeRows

\* Mutant of the metrics cascade: the constraint lacks ON DELETE CASCADE
\* enforcement, the rows of a deleted node stay.
MetricsOnDeleteCascade_None(rows, nodeId) == rows

\* metrics_nodeId_fkey ... ON DELETE CASCADE
MetricsOnDeleteCascade(rows, nodeId) ==
  SelectSeq(rows, LAMBDA r : r.nodeId # nodeId)

\* node_system_info_nodeId_fkey ... ON DELETE CASCADE
SystemInfoOnDeleteCascade(si, nodeId) ==
  [n \in DOMAIN si \ {nodeId} |-> si[n]]

\* prisma.nodeSystemInfo.upsert: one row per nodeId.
SystemInfoUpsert(si, nodeId, row) ==
  [n \in DOMAIN si \cup {nodeId} |-> IF n = nodeId THEN row ELSE si[n]]

\* authTokenHash NULL: a Node row written before the column existed.
NoAuthTokenHash == << >>

\* Passwords.hashToken: SHA-256 of the token.
hashToken(token) == <<"sha256", token>>

\* Passwords.createNodeToken: a random bearer and its SHA-256 hash.
createNodeToken ==
  [token |-> <<"T", nextNodeId>>, tokenHash |-> hashToken(<<"T", nextNodeId>>)]

\* createNode (POST /nodes/create): a Node row with a fresh id and the hash of
\* the node token just minted; lastSeenAt and createdAt default to
\* CURRENT_TIMESTAMP; then markNodesChanged().
CreateNode ==
  /\ nextNodeId <= MaxNodes
  /\ nodeRows' = [n \in DOMAIN nodeRows \cup {nextNodeId} |->
                    IF n = nextNodeId
                      THEN [createdAt |-> now, lastSeenAt |-> now,
                            authTokenHash |-> createNodeToken.tokenHash]
                      ELSE nodeRows[n]]
  /\ nextNodeId' = nextNodeId + 1
  /\ lastTs' = [lastTs EXCEPT ![nextNodeId] = {}]
  /\ MarkNodesChanged
  /\ UNCHANGED <<now, metrics, nextMetricId, systemInfo, delivered, inflight, cascaded,
                 dropped>>

\* NodeStore.deleteById (DELETE /nodes/:nodeId): true iff a row was deleted;
\* the foreign keys cascade to metrics and node_system_info; the route calls
\* markNodesChanged() after a deletion and answers 404 otherwise.
DeleteNodeById(id) ==
  IF id \in DOMAIN nodeRows
    THEN /\ nodeRows' = [n \in DOMAIN nodeRows \ {id} |-> nodeRows[n]]
         /\ metrics' = MetricsOnDeleteCascade(metrics, id)
         /\ systemInfo' = SystemInfoOnDeleteCascade(systemInfo, id)
         /\ cascaded' = Cardinality({i \in 1..Len(metrics) : metrics[i].nodeId = id})
                           + (IF id \in DOMAIN systemInfo THEN 1 ELSE 0)
         /\ MarkNodesChanged
         /\ UNCHANGED <<now, nextNodeId, nextMetricId, delivered, inflight, lastTs,
                        dropped>>
    ELSE UNCHANGED <<now, nodeRows, nextNodeId, metrics, nextMetricId, systemInfo,
                     delivered, inflight, cascaded, lastTs, dropped,
                     broadcastTimer, timers>>

\* Mutant of appendNodeMetric: the Metric row is created, the Node row is
\* not updated.
AppendNodeMetric_NoTouch(nodeId, ts, seq) ==
  IF metrics_nodeId_fkey(nodeId)
    THEN /\ metrics' = Append(metrics, [id |-> nextMetricId, nodeId |-> nodeId,
                                        ts |-> ToBigInt(ts), createdAt |-> now,
                                        seq |-> seq])
         /\ nextMetricId' = nextMetricId + 1
         /\ nodeRows' = nodeRows
         /\ lastTs' = [lastTs EXCEPT ![nodeId] = {ts}]
         /\ MarkNodesChanged
    ELSE UNCHANGED <<metrics, nextMetricId, nodeRows, lastTs, broadcastTimer, timers>>

\* MetricStore.appendNodeMetric: one transaction creates the Metric row and
\* sets Node.lastSeenAt to new Date(toBigInt(payload.ts)); a missing Node row
\* makes the transaction throw and roll back; markNodesChanged() follows a
\* commit.
AppendNodeMetric(nodeId, ts, seq) ==
  LET tsValue == ToBigInt(ts)
      observedAt == tsValue
  IN IF metrics_nodeId_fkey(nodeId)
       THEN /\ metrics' = Append(metrics, [id |-> nextMetricId, nodeId |-> nodeId,
                                           ts |-> tsValue, createdAt |-> now,
                                           seq |-> seq])
            /\ nextMetricId' = nextMetricId + 1
            /\ nodeRows' = [nodeRows EXCEPT ![nodeId].lastSeenAt = observedAt]
            /\ lastTs' = [lastTs EXCEPT ![nodeId] = {ts}]
            /\ MarkNodesChanged
       ELSE UNCHANGED <<metrics, nextMetricId, nodeRows, lastTs, broadcastTimer, timers>>

\* Mutant of the write of upsertNodeSystemInfo: lastSeenAt is set to the
\* server time instead of the payload ts.
UpsertSystemInfoWrite_ServerTime(nodeId, ts, hash, existing, seq) ==
  IF nodeId \in DOMAIN nodeRows
    THEN /\ systemInfo' = IF existing = {hash} THEN systemInfo
                          ELSE SystemInfoUpsert(systemInfo, nodeId,
                                 [hash |-> hash, reportedTs |-> ToBigInt(ts),
                                  updatedAt |-> now])
         /\ nodeRows' = [nodeRows EXCEPT ![nodeId].lastSeenAt = now]
         /\ lastTs' = [lastTs EXCEPT ![nodeId] = {ts}]
         /\ IF existing = {hash} THEN UNCHANGED <<broadcastTimer, timers>>
                                 ELSE MarkNodesChanged
    ELSE UNCHANGED <<systemInfo, nodeRows, lastTs, broadcastTimer, timers>>

\* SystemInfoStore.upsertNodeSystemInfo after its findUnique: with the hash it
\* read equal to the payload's, only Node.lastSeenAt is updated (changed:
\* false); otherwise one transaction upserts the row and updates
\* Node.lastSeenAt, then markNodesChanged() (changed: true). A missing Node
\* row makes either write throw.
UpsertSystemInfoWrite(nodeId, ts, hash, existing, seq) ==
  LET tsValue == ToBigInt(ts)
      observedAt == tsValue
  IN IF existing = {hash}
       THEN IF nodeId \in DOMAIN nodeRows
              THEN /\ nodeRows' = [nodeRows EXCEPT ![nodeId].lastSeenAt = observedAt]
                   /\ lastTs' = [lastTs EXCEPT ![nodeId] = {ts}]
                   /\ UNCHANGED <<systemInfo, broadcastTimer, timers>>
              ELSE UNCHANGED <<systemInfo, nodeRows, lastTs, broadcastTimer, timers>>
       ELSE IF node_system_info_nodeId_fkey(nodeId)
              THEN /\ systemInfo' = SystemInfoUpsert(systemInfo, nodeId,
                                      [hash |-> hash, reportedTs |-> tsValue,
                                       updatedAt |-> now])
                   /\ nodeRows' = [nodeRows EXCEPT ![nodeId].lastSeenAt = observedAt]
                   /\ lastTs' = [lastTs EXCEPT ![nodeId] = {ts}]
                   /\ MarkNodesChanged
              ELSE UNCHANGED <<systemInfo, nodeRows, lastTs, broadcastTimer, timers>>

\* A limit is a number <<i, f>>: i + f/2 with f 0 or 1. safeLimit of
\* listRecentByNode: Math.max(1, Math.min(300, Math.trunc(limit))).
safeLimit(limit) ==
  LET trunc == IF limit[1] < 0 /\ limit[2] = 1 THEN limit[1] + 1 ELSE limit[1]
      capped == IF trunc > 300 THEN 300 ELSE trunc
  IN IF capped < 1 THEN 1 ELSE capped

\* Mutant of listRecentByNode: the rows are returned as found, newest first.
listRecentByNode_NoReverse(nodeId, limit) ==
  LET idx == {i \in 1..Len(metrics) : metrics[i].nodeId = nodeId}
      n == Cardinality(idx)
      take == IF safeLimit(limit) < n THEN safeLimit(limit) ELSE n
      desc == {q \in [1..n -> idx] :
                 /\ \A a, b \in 1..n : a # b => q[a] # q[b]
                 /\ \A a, b \in 1..n :
                      a < b => metrics[q[a]].createdAt >= metrics[q[b]].createdAt}
  IN {[k \in 1..take |-> [id |-> metrics[q[k]].id,
                          at |-> metrics[q[k]].createdAt,
                          ts |-> metrics[q[k]].ts]] : q \in desc}

\* MetricStore.listRecentByNode: findMany of the node's rows ordered by
\* createdAt descending, take safeLimit, then reverse. Rows of one createdAt
\* come in any order, so the result is one of a set. The id stands for the
\* measured values of the row.
listRecentByNode(nodeId, limit) ==
  LET idx == {i \in 1..Len(metrics) : metrics[i].nodeId = nodeId}
      n == Cardinality(idx)
      take == IF safeLimit(limit) < n THEN safeLimit(limit) ELSE n
      desc == {q \in [1..n -> idx] :
                 /\ \A a, b \in 1..n : a # b => q[a] # q[b]
                 /\ \A a, b \in 1..n :
                      a < b => metrics[q[a]].createdAt >= metrics[q[b]].createdAt}
  IN {[k \in 1..take |-> [id |-> metrics[q[take + 1 - k]].id,
                          at |-> metrics[q[take + 1 - k]].createdAt,
                          ts |-> metrics[q[take + 1 - k]].ts]] : q \in desc}

(***************************************************************************)
(* Ingest (startMqttIngest, handleMqttMessage)                             *)
(***************************************************************************)
\* What the store and ingest actions leave alone in the roster.
rosterRest == <<clients, readyState, reads, frames, storeVer, burst, bhist>>

\* client.on("message"): handleMqttMessage is called and not awaited; it runs
\* up to its first await. Other topics, malformed JSON and payloads the schema
\* rejects end the call at once.
MqttMessage(topic, nodeId, body, ts, hash) ==
  /\ delivered < MaxDeliveries
  /\ delivered' = delivered + 1
  /\ inflight' =
       IF topic = "other" \/ body # "valid"
         THEN inflight
         ELSE inflight \cup {[seq |-> delivered + 1, kind |-> topic,
                              nodeId |-> nodeId, ts |-> ts, hash |-> hash,
                              pc |-> IF topic = "metrics" THEN "append" ELSE "upsertRead",
                              existing |-> {}]}
  /\ dropped' = IF topic # "other" /\ body # "valid"
                  THEN dropped \cup {delivered + 1} ELSE dropped
  /\ UNCHANGED <<now, nodeRows, nextNodeId, metrics, nextMetricId, systemInfo,
                 cascaded, lastTs, broadcastTimer, timers>>
  /\ UNCHANGED <<rosterRest, authVars, agentVars>>

\* The awaited appendNodeMetric transaction of a handler completes.
AppendCommit(h) ==
  /\ h \in inflight
  /\ h.pc = "append"
  /\ inflight' = inflight \ {h}
  /\ AppendNodeMetric(h.nodeId, h.ts, h.seq)
  /\ dropped' = IF metrics_nodeId_fkey(h.nodeId) THEN dropped
                  ELSE dropped \cup {h.seq}
  /\ UNCHANGED <<now, nextNodeId, systemInfo, delivered, cascaded>>
  /\ UNCHANGED <<rosterRest, authVars, agentVars>>

\* The findUnique of upsertNodeSystemInfo completes.
UpsertRead(h) ==
  /\ h \in inflight
  /\ h.pc = "upsertRead"
  /\ inflight' = (inflight \ {h}) \cup
       {[h EXCEPT !.pc = "upsertWrite",
                  !.existing = IF h.nodeId \in DOMAIN systemInfo
                                 THEN {systemInfo[h.nodeId].hash} ELSE {}]}
  /\ UNCHANGED <<now, nodeRows, nextNodeId, metrics, nextMetricId, systemInfo,
                 delivered, cascaded, lastTs, dropped, broadcastTimer, timers>>
  /\ UNCHANGED <<rosterRest, authVars, agentVars>>

\* The write of upsertNodeSystemInfo completes.
UpsertWrite(h) ==
  /\ h \in inflight
  /\ h.pc = "upsertWrite"
  /\ inflight' = inflight \ {h}
  /\ UpsertSystemInfoWrite(h.nodeId, h.ts, h.hash, h.existing, h.seq)
  /\ dropped' = IF node_system_info_nodeId_fkey(h.nodeId) THEN dropped
                  ELSE dropped \cup {h.seq}
  /\ UNCHANGED <<now, nextNodeId, metrics, nextMetricId, delivered, cascaded>>
  /\ UNCHANGED <<rosterRest, authVars, agentVars>>

\* Mutant of the catch of handleMqttMessage: the store error is thrown on and
\* the call stays a rejected promise.
StoreError_Rethrow(h) ==
  /\ h \in inflight
  /\ inflight' = (inflight \ {h}) \cup {[h EXCEPT !.pc = "rejected"]}
  /\ dropped' = dropped \cup {h.seq}
  /\ UNCHANGED <<now, nodeRows, nextNodeId, metrics, nextMetricId, systemInfo,
                 delivered, cascaded, lastTs, broadcastTimer, timers>>
  /\ UNCHANGED <<rosterRest, authVars, agentVars>>

\* An awaited store call rejects (database unreachable): the handler logs a
\* warning and returns.
StoreError(h) ==
  /\ h \in inflight
  /\ inflight' = inflight \ {h}
  /\ dropped' = dropped \cup {h.seq}
  /\ UNCHANGED <<now, nodeRows, nextNodeId, metrics, nextMetricId, systemInfo,
                 delivered, cascaded, lastTs, broadcastTimer, timers>>
  /\ UNCHANGED <<rosterRest, authVars, agentVars>>

\* POST /nodes/create by a session that holds nodes:create.
HttpCreateNode ==
  /\ CreateNode
  /\ UNCHANGED <<rosterRest, authVars, agentVars>>

\* DELETE /nodes/:nodeId by a session that may write the node.
HttpDeleteNode(id) ==
  /\ DeleteNodeById(id)
  /\ UNCHANGED <<rosterRest, authVars, agentVars>>

\* A request body without a string nodeToken.
NoNodeToken == << >>

\* Node tokens a request can carry: the minted ones, each with its first
\* byte changed, and none.
NodeTokenInputs == {<<p, n>> : p \in {"T", "X"}, n \in NodeIds} \cup {NoNodeToken}

\* Mutant of the exchange: the token is not compared with the stored hash.
ExchangeNodeTokenReply_AnyToken(nodes, nodeId, nodeToken) ==
  IF nodeToken = NoNodeToken
    THEN [status |-> 400, body |-> "nodeId and nodeToken are required"]
  ELSE IF nodeId \notin DOMAIN nodes
    THEN [status |-> 401, body |-> "invalid node credentials"]
  ELSE [status |-> 200, body |-> "mqtt"]

\* The answer of POST /nodes/auth/exchange over the Node table `nodes`.
ExchangeNodeTokenReply(nodes, nodeId, nodeToken) ==
  IF nodeToken = NoNodeToken
    THEN [status |-> 400, body |-> "nodeId and nodeToken are required"]
  ELSE IF nodeId \notin DOMAIN nodes
    THEN [status |-> 401, body |-> "invalid node credentials"]
  ELSE IF nodes[nodeId].authTokenHash = NoAuthTokenHash
    THEN [status |-> 401, body |-> "invalid node credentials"]
  ELSE IF hashToken(nodeToken) # nodes[nodeId].authTokenHash
    THEN [status |-> 401, body |-> "invalid node credentials"]
  ELSE [status |-> 200, body |-> "mqtt"]

\* POST /nodes/auth/exchange: reads the Node row, writes nothing.
ExchangeNodeToken(nodeId, nodeToken) ==
  /\ ExchangeNodeTokenReply(nodeRows, nodeId, nodeToken).status \in {200, 400, 401}
  /\ UNCHANGED storeVars
  /\ UNCHANGED rosterVars
  /\ UNCHANGED <<authVars, agentVars>>

\* The broadcast timer fires while no dashboard is connected.
IngestTimerFire ==
  /\ BroadcastTimerCallback
  /\ UNCHANGED <<clients, readyState, frames, storeVer, burst, bhist>>
  /\ UNCHANGED <<storeVars, authVars, agentVars>>

InitStore ==
  /\ now = 1
  /\ nodeRows = << >>
  /\ nextNodeId = 1
  /\ metrics = << >>
  /\ nextMetricId = 1
  /\ systemInfo = << >>
  /\ delivered = 0
  /\ inflight = {}
  /\ cascaded = 0
  /\ lastTs = [n \in NodeIds |-> {}]
  /\ dropped = {}

NextStore ==
  \/ \E topic \in Topics, nodeId \in NodeIds, body \in Bodies,
        ts \in {now - 2, now + 1}, hash \in Hashes :
       /\ (topic = "other" \/ body # "valid") => ts = now + 1
       /\ (topic # "system" \/ body # "valid") => hash = "h1"
       /\ MqttMessage(topic, nodeId, body, ts, hash)
  \/ \E h \in inflight : AppendCommit(h)
  \/ \E h \in inflight : UpsertRead(h)
  \/ \E h \in inflight : UpsertWrite(h)
  \/ \E h \in inflight : StoreError(h)
  \/ HttpCreateNode
  \/ \E id \in NodeIds : HttpDeleteNode(id)
  \/ \E nodeId \in NodeIds, nodeToken \in NodeTokenInputs :
       /\ nodeToken = NoNodeToken => nodeId = 1
       /\ nodeToken # NoNodeToken =>
            /\ nodeToken[2] = nodeId
            /\ nodeId \notin DOMAIN nodeRows => nodeToken[1] = "T"
       /\ ExchangeNodeToken(nodeId, nodeToken)
  \/ IngestTimerFire

(***************************************************************************)
(* Identity (store/prisma.ts, user/auth.ts, routes/auth.ts, prestart.ts)   *)
(***************************************************************************)
UserIds == 1..MaxUsers
TokenValues == 1..MaxTokens
SessionValues == 1..MaxSessions
RoleNames == {"admin", "user"}
Passwords == {"pw1", "pw2"}

\* The email of the shell account that runPrestart creates.
BOOTSTRAP_EMAIL == "bootstrap-admin@example.com"

\* Addresses a request can carry; the last one is not an email address.
Emails == {BOOTSTRAP_EMAIL, "Root@example.com"}
EmailInputs == Emails \cup {"not-an-email"}

\* Config.Passwords.RESET_PASSWORD_TOKEN.EXPIRES_IN, in hours.
RESET_PASSWORD_TOKEN_EXPIRES_IN == 1

\* Config.Sessions.SESSION_TOKEN.EXPIRES_IN, in hours.
SESSION_TOKEN_EXPIRES_IN == 168

\* passwordHash NULL.
NoPasswordHash == << >>

\* A request without an Authorization: Bearer header.
NoBearer == 0

\* What the identity actions leave alone in the store.
storeRest == <<nodeRows, nextNodeId, metrics, nextMetricId, systemInfo,
               delivered, inflight, cascaded, lastTs, dropped>>

\* String.prototype.toLowerCase on the addresses of Emails.
toLowerCase(email) ==
  IF email = "Root@example.com" THEN "root@example.com" ELSE email

\* normalizeEmail: trim().toLowerCase().
normalizeEmail(email) == toLowerCase(email)

\* parseEmail: the address when the schema accepts it, as a set.
parseEmail(email) == IF email \in Emails THEN {email} ELSE {}

\* Passwords.hashPassword: argon2id.
hashPassword(password) == <<"argon2id", password>>

\* Passwords.verifyPassword.
verifyPassword(password, hash) == hash = <<"argon2id", password>>

\* The answer of a request handler: the status and the error or the body.
Reply(status, body) == [status |-> status, body |-> body]

\* UserStore.hasCredentialedAdmin.
hasCredentialedAdmin ==
  \E u \in DOMAIN users :
    /\ users[u].passwordHash # NoPasswordHash
    /\ <<u, "admin">> \in userRoles

\* Mutant of hasCredentialedAdminExcludingEmail: no user is excluded.
hasCredentialedAdminExcludingEmail_NoExclusion(emailNormalized) ==
  \E u \in DOMAIN users :
    /\ users[u].passwordHash # NoPasswordHash
    /\ <<u, "admin">> \in userRoles

\* UserStore.hasCredentialedAdminExcludingEmail.
hasCredentialedAdminExcludingEmail(emailNormalized) ==
  \E u \in DOMAIN users :
    /\ users[u].emailNormalized # emailNormalized
    /\ users[u].passwordHash # NoPasswordHash
    /\ <<u, "admin">> \in userRoles

\* UserStore.findByEmail: emailNormalized is unique.
findByEmail(emailNormalized) ==
  {u \in DOMAIN users : users[u].emailNormalized = emailNormalized}

\* UserStore.createShellUser: no passwordHash.
createShellUser(id, email) ==
  [u \in DOMAIN users \cup {id} |->
     IF u = id
       THEN [email |-> email, emailNormalized |-> toLowerCase(email),
             passwordHash |-> NoPasswordHash, isDisabled |-> FALSE,
             failedLoginCount |-> 0]
       ELSE users[u]]

\* Mutant of updatePassword: the row is left as it is.
updatePassword_Noop(userId, passwordHash) == users

\* UserStore.updatePassword: failedLoginCount is zeroed.
updatePassword(userId, passwordHash) ==
  [users EXCEPT ![userId].passwordHash = passwordHash,
                ![userId].failedLoginCount = 0]

\* UserStore.recordLoginFailure.
recordLoginFailure(userId) ==
  [users EXCEPT ![userId].failedLoginCount = @ + 1]

\* recordLoginSuccess without the reset of failedLoginCount.
recordLoginSuccess_KeepCount(userId) == users

\* UserStore.recordLoginSuccess.
recordLoginSuccess(userId) ==
  [users EXCEPT ![userId].failedLoginCount = 0]

\* Mutant of updateProfileAndPassword: emailNormalized is stored as typed.
updateProfileAndPassword_NoNormalize(userId, email, passwordHash) ==
  [users EXCEPT ![userId].email = email,
                ![userId].emailNormalized = email,
                ![userId].passwordHash = passwordHash,
                ![userId].failedLoginCount = 0]

\* UserStore.updateProfileAndPassword.
updateProfileAndPassword(userId, email, passwordHash) ==
  [users EXCEPT ![userId].email = email,
                ![userId].emailNormalized = toLowerCase(email),
                ![userId].passwordHash = passwordHash,
                ![userId].failedLoginCount = 0]

\* User_emailNormalized_key: another user already has the address.
User_emailNormalized_key(userId, email) ==
  \E u \in DOMAIN users \ {userId} :
    users[u].emailNormalized = toLowerCase(email)

\* AuthToken.metadata NULL.
NoMetadata == {}

\* Passwords.resetPasswordToken: the next random token, its SHA-256 hash and
\* its expiry.
resetPasswordToken ==
  [token |-> nextTokenId, tokenHash |-> hashToken(nextTokenId),
   expiresAt |-> now + RESET_PASSWORD_TOKEN_EXPIRES_IN]

\* AuthTokenStore.createResetToken: a RESET_PASSWORD row of the user, its id
\* numbered like the token it was made for.
createResetToken(userId, metadata) ==
  [id |-> resetPasswordToken.token, userId |-> userId,
   tokenHash |-> resetPasswordToken.tokenHash,
   expiresAt |-> resetPasswordToken.expiresAt, consumedAt |-> {},
   metadata |-> metadata]

\* rotateResetTokenWithMetadata without its deleteMany.
rotateResetTokenWithMetadata_NoDelete(userId, metadata) ==
  authTokens \cup {createResetToken(userId, metadata)}

\* AuthTokenStore.rotateResetToken: the unconsumed reset tokens of the user
\* are deleted, a new one is created.
rotateResetToken(userId) ==
  {t \in authTokens : ~(t.userId = userId /\ t.consumedAt = {})}
    \cup {createResetToken(userId, NoMetadata)}

\* AuthTokenStore.rotateResetTokenWithMetadata: as rotateResetToken, the new
\* row holding the metadata.
rotateResetTokenWithMetadata(userId, metadata) ==
  {t \in authTokens : ~(t.userId = userId /\ t.consumedAt = {})}
    \cup {createResetToken(userId, metadata)}

\* Mutant of findActiveResetTokenByUser: no token is ever found active.
findActiveResetTokenByUser_None(userId) == {}

\* AuthTokenStore.findActiveResetTokenByUser: the newest unconsumed and
\* unexpired reset token of the user, as a set.
findActiveResetTokenByUser(userId) ==
  LET active == {t \in authTokens :
                   t.userId = userId /\ t.consumedAt = {} /\ t.expiresAt > now}
  IN {t \in active : \A o \in active : o.id <= t.id}

\* AuthTokenStore.findUsableResetToken: tokenHash is unique.
findUsableResetToken(tokenHash) ==
  {t \in authTokens :
     t.tokenHash = tokenHash /\ t.consumedAt = {} /\ t.expiresAt > now}

\* Mutant of consumeToken: consumedAt is not written.
consumeToken_Noop(tokenId) == authTokens

\* AuthTokenStore.consumeToken.
consumeToken(tokenId) ==
  {IF t.id = tokenId THEN [t EXCEPT !.consumedAt = {now}] ELSE t : t \in authTokens}

\* findActiveSessionByTokenHash without the revokedAt filter.
findActiveSessionByTokenHash_IgnoreRevoked(tokenHash) ==
  {s \in sessions : s.tokenHash = tokenHash /\ s.expiresAt > now}

\* SessionStore.findActiveSessionByTokenHash.
findActiveSessionByTokenHash(tokenHash) ==
  {s \in sessions :
     s.tokenHash = tokenHash /\ s.revokedAt = {} /\ s.expiresAt > now}

\* requireAdminSession: 200 for a live session of a user with the admin role,
\* else the status of the refusal.
requireAdminSession(bearer) ==
  IF bearer = NoBearer THEN 401
  ELSE IF findActiveSessionByTokenHash(hashToken(bearer)) = {} THEN 401
  ELSE IF \E s \in findActiveSessionByTokenHash(hashToken(bearer)) :
            <<s.userId, "admin">> \notin userRoles
         THEN 403
  ELSE 200

\* The error requireAdminSession answers with.
sessionError(status) ==
  IF status = 403 THEN "admin role required" ELSE "invalid session"

\* Mutant of the bootstrap eligibility test: the admin role is not required.
isBootstrapAdmin_NoRole(userId) ==
  users[userId].passwordHash = NoPasswordHash

\* isBootstrapAdmin of POST /auth/bootstrap/claim.
isBootstrapAdmin(userId) ==
  /\ users[userId].passwordHash = NoPasswordHash
  /\ <<userId, "admin">> \in userRoles

\* Mutant of isRemovingAdmin: never true.
isRemovingAdmin_Never(userId, roleNames) == FALSE

\* isRemovingAdmin of POST /auth/users/:userId/roles.
isRemovingAdmin(userId, roleNames) ==
  <<userId, "admin">> \in userRoles /\ "admin" \notin roleNames

\* RoleStore.replaceUserRoles: the user's roles become exactly roleNames.
replaceUserRoles(userId, roleNames) ==
  {ur \in userRoles : ur[1] # userId} \cup {<<userId, r>> : r \in roleNames}

\* UserStore.findByEmail(normalizeEmail(parsedEmail)) of POST /auth/login.
LoginUser(email) ==
  IF parseEmail(email) = {} THEN {} ELSE findByEmail(normalizeEmail(email))

\* Mutant of the login: an address without an account is answered 404.
LoginStatus_RevealsMissing(us, email, password) ==
  IF parseEmail(email) = {} THEN 400
  ELSE LET found == {u \in DOMAIN us :
                       us[u].emailNormalized = normalizeEmail(email)}
       IN IF found = {} THEN 404
          ELSE IF \E u \in found : us[u].passwordHash = NoPasswordHash THEN 401
          ELSE IF \E u \in found : ~verifyPassword(password, us[u].passwordHash)
            THEN 401
          ELSE IF \E u \in found : us[u].isDisabled THEN 403
          ELSE 200

\* POST /auth/login up to the session: the status it answers with.
LoginStatus(us, email, password) ==
  IF parseEmail(email) = {} THEN 400
  ELSE LET found == {u \in DOMAIN us :
                       us[u].emailNormalized = normalizeEmail(email)}
       IN IF found = {} \/ \E u \in found : us[u].passwordHash = NoPasswordHash
            THEN 401
          ELSE IF \E u \in found : ~verifyPassword(password, us[u].passwordHash)
            THEN 401
          ELSE IF \E u \in found : us[u].isDisabled THEN 403
          ELSE 200

\* The tables of the identity store.
authTables == <<users, nextUserId, roleRows, userRoles, authTokens, nextTokenId,
                sessions, nextSessionId>>

\* runPrestart: with a credentialed admin under another address the account
\* of the bootstrap address is deleted (its roles, tokens and sessions
\* cascade); otherwise the shell account is found or created and, while it
\* has no password, given the admin role and a bootstrap token unless a live
\* one is on record.
RunPrestart ==
  LET emailNormalized == toLowerCase(BOOTSTRAP_EMAIL)
      found == findByEmail(emailNormalized)
  IN /\ prestartRan' = TRUE
     /\ IF hasCredentialedAdminExcludingEmail(emailNormalized)
          THEN /\ users' = [u \in DOMAIN users \ found |-> users[u]]
               /\ userRoles' = {ur \in userRoles : ur[1] \notin found}
               /\ authTokens' = {t \in authTokens : t.userId \notin found}
               /\ sessions' = {s \in sessions : s.userId \notin found}
               /\ UNCHANGED <<nextUserId, roleRows, nextTokenId>>
          ELSE LET adminUser == IF found = {} THEN nextUserId
                                ELSE CHOOSE u \in found : TRUE
                   created == IF found = {}
                                THEN createShellUser(nextUserId, BOOTSTRAP_EMAIL)
                                ELSE users
               IN /\ found = {} => nextUserId <= MaxUsers
                  /\ users' = created
                  /\ nextUserId' = IF found = {} THEN nextUserId + 1 ELSE nextUserId
                  /\ UNCHANGED sessions
                  /\ IF created[adminUser].passwordHash # NoPasswordHash
                       THEN UNCHANGED <<roleRows, userRoles, authTokens, nextTokenId>>
                       ELSE /\ roleRows' = roleRows \cup {"admin"}
                            /\ userRoles' = userRoles \cup {<<adminUser, "admin">>}
                            /\ IF \E t \in findActiveResetTokenByUser(adminUser) :
                                    t.metadata # NoMetadata
                                 THEN UNCHANGED <<authTokens, nextTokenId>>
                                 ELSE /\ nextTokenId <= MaxTokens
                                      /\ authTokens' = rotateResetTokenWithMetadata(
                                             adminUser,
                                             {[bootstrapToken |-> resetPasswordToken.token]})
                                      /\ nextTokenId' = nextTokenId + 1
     /\ UNCHANGED <<nextSessionId, spent>>
     /\ UNCHANGED <<rosterVars, storeVars, agentVars, rolePermissions, requests, passwordSets>>

\* An hour passes.
Tick ==
  /\ now < MaxNow
  /\ now' = now + 1
  /\ UNCHANGED <<authTables, prestartRan, spent>>
  /\ UNCHANGED <<rosterVars, storeRest, agentVars, rolePermissions, requests, passwordSets>>

\* The answer of GET /auth/bootstrap/status.
BootstrapStatusReply ==
  Reply(200, IF hasCredentialedAdmin THEN "needsBootstrap:false"
                                     ELSE "needsBootstrap:true")

\* GET /auth/bootstrap/status: reads only.
BootstrapStatus ==
  /\ BootstrapStatusReply.status = 200
  /\ UNCHANGED <<authTables, prestartRan, spent>>
  /\ UNCHANGED <<rosterVars, storeVars, agentVars, rolePermissions, requests, passwordSets>>

\* The answer of POST /auth/bootstrap/claim; 500 is the unique violation that
\* updateProfileAndPassword throws for an address another user has.
BootstrapClaimReply(token, email, password) ==
  LET usable == findUsableResetToken(hashToken(token))
  IN IF parseEmail(email) = {}
       THEN Reply(400, "token, email and password are required")
     ELSE IF usable = {}
       THEN Reply(401, "invalid bootstrap token")
     ELSE IF \E t \in usable : ~isBootstrapAdmin(t.userId)
       THEN Reply(403, "token is not eligible for bootstrap claim")
     ELSE IF \E t \in usable : User_emailNormalized_key(t.userId, email)
       THEN Reply(500, "unique constraint")
     ELSE Reply(200, "ok")

\* POST /auth/bootstrap/claim.
BootstrapClaim(token, email, password) ==
  LET status == BootstrapClaimReply(token, email, password).status
      authToken == CHOOSE t \in findUsableResetToken(hashToken(token)) : TRUE
  IN /\ IF status = 200
          THEN /\ roleRows' = roleRows \cup {"admin"}
               /\ users' = updateProfileAndPassword(authToken.userId, email,
                                                    hashPassword(password))
               /\ userRoles' = userRoles \cup {<<authToken.userId, "admin">>}
               /\ authTokens' = consumeToken(authToken.id)
               /\ UNCHANGED <<nextUserId, nextTokenId, sessions, nextSessionId>>
        ELSE IF status = 500
          THEN /\ roleRows' = roleRows \cup {"admin"}
               /\ UNCHANGED <<users, nextUserId, userRoles, authTokens, nextTokenId,
                              sessions, nextSessionId>>
        ELSE UNCHANGED authTables
     /\ UNCHANGED <<prestartRan, spent>>
     /\ UNCHANGED <<rosterVars, storeVars, agentVars, rolePermissions, requests, passwordSets>>

\* The answer of POST /auth/set-password.
SetPasswordReply(token, password) ==
  IF findUsableResetToken(hashToken(token)) = {}
    THEN Reply(401, "invalid token")
    ELSE Reply(200, "ok")

\* POST /auth/set-password.
SetPassword(token, password) ==
  LET status == SetPasswordReply(token, password).status
      authToken == CHOOSE t \in findUsableResetToken(hashToken(token)) : TRUE
  IN /\ IF status = 200
          THEN /\ users' = updatePassword(authToken.userId, hashPassword(password))
               /\ authTokens' = consumeToken(authToken.id)
               /\ spent' = spent \cup {token}
               /\ UNCHANGED <<nextUserId, roleRows, userRoles, nextTokenId,
                              sessions, nextSessionId>>
          ELSE UNCHANGED <<authTables, spent>>
     /\ UNCHANGED prestartRan
     /\ UNCHANGED <<rosterVars, storeVars, agentVars, rolePermissions, requests, passwordSets>>

\* The answer of POST /auth/login.
LoginReply(email, password) ==
  LET status == LoginStatus(users, email, password)
  IN Reply(status, IF status = 400 THEN "email and password are required"
                   ELSE IF status = 401 THEN "invalid credentials"
                   ELSE IF status = 403 THEN "account disabled"
                   ELSE "token")

\* SessionStore.createSession for the next random session token
\* (Sessions.createSession): the row holds the hash of the token.
createSession(userId) ==
  sessions \cup {[id |-> nextSessionId, userId |-> userId,
                  tokenHash |-> hashToken(nextSessionId),
                  expiresAt |-> now + SESSION_TOKEN_EXPIRES_IN,
                  revokedAt |-> {}]}

\* POST /auth/login: the password of a user found by the normalized address
\* is verified; a failure is recorded on the user; a disabled account is
\* refused after the password verified; else a session is created and the
\* success recorded.
Login(email, password) ==
  LET status == LoginReply(email, password).status
      found == LoginUser(email)
      user == CHOOSE u \in found : TRUE
  IN /\ IF status = 200
          THEN /\ nextSessionId <= MaxSessions
               /\ sessions' = createSession(user)
               /\ nextSessionId' = nextSessionId + 1
               /\ users' = recordLoginSuccess(user)
               /\ UNCHANGED <<nextUserId, roleRows, userRoles, authTokens,
                              nextTokenId>>
          ELSE IF /\ status = 401
                  /\ \E u \in found : users[u].passwordHash # NoPasswordHash
            THEN /\ users[user].failedLoginCount < MaxFailedLogins
                 /\ users' = recordLoginFailure(user)
                 /\ UNCHANGED <<nextUserId, roleRows, userRoles, authTokens,
                                nextTokenId, sessions, nextSessionId>>
          ELSE UNCHANGED authTables
     /\ UNCHANGED <<prestartRan, spent>>
     /\ UNCHANGED <<rosterVars, storeVars, agentVars, rolePermissions, requests, passwordSets>>

\* The answer of GET /auth/me.
MeReply(bearer) ==
  IF bearer = NoBearer THEN Reply(401, "missing bearer token")
  ELSE IF findActiveSessionByTokenHash(hashToken(bearer)) = {}
    THEN Reply(401, "invalid session")
  ELSE Reply(200, "user")

\* GET /auth/me: touchSession writes lastSeenAt, a column nothing reads.
Me(bearer) ==
  /\ MeReply(bearer).status \in {200, 401}
  /\ UNCHANGED <<authTables, prestartRan, spent>>
  /\ UNCHANGED <<rosterVars, storeVars, agentVars, rolePermissions, requests, passwordSets>>

\* Mutant of revokeByTokenHash: the revoked rows of the hash are written too.
revokeByTokenHash_Overwrite(tokenHash) ==
  {IF s.tokenHash = tokenHash
     THEN [s EXCEPT !.revokedAt = {now}] ELSE s : s \in sessions}

\* SessionStore.revokeByTokenHash: the unrevoked rows of the hash get
\* revokedAt.
revokeByTokenHash(tokenHash) ==
  {IF s.tokenHash = tokenHash /\ s.revokedAt = {}
     THEN [s EXCEPT !.revokedAt = {now}] ELSE s : s \in sessions}

\* The answer of POST /auth/logout.
LogoutReply(bearer) ==
  IF bearer = NoBearer THEN Reply(401, "missing bearer token")
  ELSE Reply(200, "ok")

\* POST /auth/logout.
Logout(bearer) ==
  /\ IF LogoutReply(bearer).status = 200
       THEN sessions' = revokeByTokenHash(hashToken(bearer))
       ELSE UNCHANGED sessions
  /\ UNCHANGED <<users, nextUserId, roleRows, userRoles, authTokens,
                 nextTokenId, nextSessionId, prestartRan, spent>>
  /\ UNCHANGED <<rosterVars, storeVars, agentVars, rolePermissions, requests, passwordSets>>

\* The lifetime of a session passes.
SessionLifetimePasses ==
  /\ now <= MaxNow
  /\ now' = now + SESSION_TOKEN_EXPIRES_IN
  /\ UNCHANGED <<authTables, prestartRan, spent>>
  /\ UNCHANGED <<rosterVars, storeRest, agentVars, rolePermissions, requests, passwordSets>>

\* User.isDisabled is a column no route writes: an operator sets or clears it
\* in the database.
SetDisabled(userId, isDisabled) ==
  /\ userId \in DOMAIN users
  /\ users' = [users EXCEPT ![userId].isDisabled = isDisabled]
  /\ UNCHANGED <<nextUserId, roleRows, userRoles, authTokens, nextTokenId,
                 sessions, nextSessionId, prestartRan, spent>>
  /\ UNCHANGED <<rosterVars, storeVars, agentVars, rolePermissions, requests, passwordSets>>

\* The answer of POST /auth/users; 500 is the unique violation that
\* createShellUser throws for an address a user has.
CreateUserReply(bearer, email) ==
  LET auth == requireAdminSession(bearer)
  IN IF auth # 200 THEN Reply(auth, sessionError(auth))
     ELSE IF parseEmail(email) = {} THEN Reply(400, "email is required")
     ELSE IF findByEmail(toLowerCase(email)) # {} THEN Reply(500, "unique constraint")
     ELSE Reply(201, "setupToken")

\* POST /auth/users: a shell user with the role user and a setup token.
CreateUser(bearer, email) ==
  LET status == CreateUserReply(bearer, email).status
  IN /\ IF status = 201
          THEN /\ nextUserId <= MaxUsers
               /\ nextTokenId <= MaxTokens
               /\ users' = createShellUser(nextUserId, email)
               /\ nextUserId' = nextUserId + 1
               /\ roleRows' = roleRows \cup {"user"}
               /\ userRoles' = userRoles \cup {<<nextUserId, "user">>}
               /\ authTokens' = rotateResetToken(nextUserId)
               /\ nextTokenId' = nextTokenId + 1
               /\ UNCHANGED <<sessions, nextSessionId>>
          ELSE UNCHANGED authTables
     /\ UNCHANGED <<prestartRan, spent>>
     /\ UNCHANGED <<rosterVars, storeVars, agentVars, rolePermissions, requests, passwordSets>>

\* The answer of POST /auth/users/:userId/roles.
ReplaceUserRolesReply(bearer, userId, roleNames) ==
  LET auth == requireAdminSession(bearer)
  IN IF auth # 200 THEN Reply(auth, sessionError(auth))
     ELSE IF roleNames = {} THEN Reply(400, "at least one role is required")
     ELSE IF userId \notin DOMAIN users THEN Reply(404, "user not found")
     ELSE IF ~(roleNames \subseteq roleRows) THEN Reply(400, "unknown roles")
     ELSE IF /\ isRemovingAdmin(userId, roleNames)
             /\ ~hasCredentialedAdminExcludingEmail(users[userId].emailNormalized)
       THEN Reply(400, "cannot remove the last credentialed admin")
     ELSE Reply(200, "user")

\* POST /auth/users/:userId/roles.
ReplaceUserRoles(bearer, userId, roleNames) ==
  /\ IF ReplaceUserRolesReply(bearer, userId, roleNames).status = 200
       THEN userRoles' = replaceUserRoles(userId, roleNames)
       ELSE UNCHANGED userRoles
  /\ UNCHANGED <<users, nextUserId, roleRows, authTokens, nextTokenId,
                 sessions, nextSessionId, prestartRan, spent>>
  /\ UNCHANGED <<rosterVars, storeVars, agentVars, rolePermissions, requests, passwordSets>>

(***************************************************************************)
(* Node read authorization (routes/nodes.ts, routes/auth.ts)               *)
(***************************************************************************)
\* Permission codes as <<scope, node id>>: nodes:read and health:read carry no
\* node id (0); node:read:<id> and node:write:<id> name a node, id 0 being an
\* id that no Node row has.
PermissionCodes ==
  {<<"nodes:read", 0>>, <<"health:read", 0>>}
    \cup {<<"node:read", n>> : n \in NodeIds \cup {0}}
    \cup {<<"node:write", n>> : n \in NodeIds}

\* The permissionCodes arrays a request can carry.
PermissionSets ==
  {{}, {<<"nodes:read", 0>>}, {<<"health:read", 0>>},
   {<<"node:read", 0>>, <<"node:write", 1>>}}
    \cup {{<<"node:read", n>>} : n \in NodeIds}

\* getSessionPermissionCodes: the codes of the permissions of the roles of
\* the session's user.
getSessionPermissionCodes(bearer) ==
  {rp[2] : rp \in {x \in rolePermissions :
                     \E s \in findActiveSessionByTokenHash(hashToken(bearer)) :
                       <<s.userId, x[1]>> \in userRoles}}

\* sessionHasPermission.
sessionHasPermission(bearer, permissionCode) ==
  permissionCode \in getSessionPermissionCodes(bearer)

\* sessionCanReadNode.
sessionCanReadNode(bearer, nodeId) ==
  \/ sessionHasPermission(bearer, <<"nodes:read", 0>>)
  \/ sessionHasPermission(bearer, <<"node:read", nodeId>>)

\* Mutant of getReadableNodeIds: every code that names a node counts.
getReadableNodeIds_AnyScope(bearer) ==
  {c[2] : c \in {x \in getSessionPermissionCodes(bearer) :
                   x[1] \in {"node:read", "node:write"}}}

\* getReadableNodeIds: the ids after the prefix node:read: .
getReadableNodeIds(bearer) ==
  {c[2] : c \in {x \in getSessionPermissionCodes(bearer) : x[1] = "node:read"}}

\* requireSessionFromAuthorization: 200 for a live session, else 401.
requireSessionFromAuthorization(bearer) ==
  IF bearer = NoBearer THEN 401
  ELSE IF findActiveSessionByTokenHash(hashToken(bearer)) = {} THEN 401
  ELSE 200

\* The answer of GET /nodes; the body is the set of the ids of the nodes
\* returned.
GetNodesReply(bearer) ==
  IF requireSessionFromAuthorization(bearer) # 200
    THEN Reply(401, "invalid session")
  ELSE IF sessionHasPermission(bearer, <<"nodes:read", 0>>)
    THEN Reply(200, DOMAIN nodeRows)
  ELSE IF getReadableNodeIds(bearer) = {}
    THEN Reply(403, "permission required: nodes:read or node:read:<nodeId>")
  ELSE Reply(200, {n \in DOMAIN nodeRows : n \in getReadableNodeIds(bearer)})

\* GET /nodes: reads only.
GetNodes(bearer) ==
  /\ GetNodesReply(bearer).status \in {200, 401, 403}
  /\ UNCHANGED vars

\* The status of GET /nodes/:nodeId/metrics.
GetNodeMetricsStatus(bearer, nodeId) ==
  IF requireSessionFromAuthorization(bearer) # 200 THEN 401
  ELSE IF ~sessionCanReadNode(bearer, nodeId) THEN 403
  ELSE 200

\* The query values of limit: numbers <<i, f>> (i + f/2) and none, << >>.
LimitInputs ==
  {<<i, 0>> : i \in {-1, 0, 1, 2, 300, 301, 10000}}
    \cup {<<-1, 1>>, <<1, 1>>} \cup {<< >>}

\* The answers GET /nodes/:nodeId/metrics can give; without a limit in the
\* query the limit is 60.
GetNodeMetricsReplies(bearer, nodeId, limit) ==
  LET status == GetNodeMetricsStatus(bearer, nodeId)
  IN IF status = 401 THEN {Reply(401, "invalid session")}
     ELSE IF status = 403
       THEN {Reply(403, "permission required: nodes:read or node:read:<nodeId>")}
     ELSE {Reply(200, m) :
             m \in listRecentByNode(nodeId, IF limit = << >> THEN <<60, 0>>
                                            ELSE limit)}

\* GET /nodes/:nodeId/metrics: reads only.
GetNodeMetrics(bearer, nodeId, limit) ==
  /\ GetNodeMetricsReplies(bearer, nodeId, limit) # {}
  /\ UNCHANGED vars

\* The answer of POST /auth/roles/:roleName/permissions.
SetRolePermissionsReply(bearer, roleName, permissionCodes) ==
  LET auth == requireAdminSession(bearer)
  IN IF auth # 200 THEN Reply(auth, sessionError(auth))
     ELSE IF roleName \notin roleRows THEN Reply(404, "role not found")
     ELSE Reply(200, "role")

\* RoleStore.replaceRolePermissions: the given permissions take the place of
\* the role's RolePermission rows.
replaceRolePermissions(roleName, permissionCodes) ==
  {rp \in rolePermissions : rp[1] # roleName}
    \cup {<<roleName, c>> : c \in permissionCodes}

\* POST /auth/roles/:roleName/permissions.
SetRolePermissions(bearer, roleName, permissionCodes) ==
  /\ rolePermissions' =
       IF SetRolePermissionsReply(bearer, roleName, permissionCodes).status = 200
         THEN replaceRolePermissions(roleName, permissionCodes)
         ELSE rolePermissions
  /\ UNCHANGED <<authTables, prestartRan, spent, requests, passwordSets>>
  /\ UNCHANGED <<rosterVars, storeVars, agentVars>>

(***************************************************************************)
(* Request handlers at their awaits (routes/auth.ts)                       *)
(***************************************************************************)
\* The handlers of set-password, bootstrap claim and the role replacement
\* read, decide and then write in separate awaited store calls; the calls of
\* concurrent requests interleave. A request past its checks is a record in
\* requests, pc naming the store call it awaits next.
RequestIds == 1..MaxRequests

\* A request that passed its checks.
Request(kind, await, token, tokenId, userId, email, password, roleNames) ==
  [id |-> CHOOSE i \in RequestIds : \A q \in requests : q.id # i,
   kind |-> kind, pc |-> await, token |-> token, tokenId |-> tokenId,
   userId |-> userId, email |-> email, password |-> password,
   roleNames |-> roleNames]

\* What the steps of a request leave alone outside the identity store.
nonAuth == <<rosterVars, storeVars, agentVars>>

\* POST /auth/set-password up to findUsableResetToken: 401 without a usable
\* row.
SetPasswordFind(token, password) ==
  LET usable == findUsableResetToken(hashToken(token))
  IN /\ Cardinality(requests) < MaxRequests
     /\ requests' =
          IF usable = {} THEN requests
          ELSE requests \cup
                 {Request("setPassword", "updatePassword", token, t.id, t.userId,
                          "", password, {}) : t \in usable}
     /\ UNCHANGED <<authTables, rolePermissions, prestartRan, spent, passwordSets>>
     /\ UNCHANGED nonAuth

\* POST /auth/set-password: await UserStore.updatePassword (it throws for a
\* user that is gone).
SetPasswordUpdate(q) ==
  /\ q \in requests
  /\ q.kind = "setPassword"
  /\ q.pc = "updatePassword"
  /\ IF q.userId \in DOMAIN users
       THEN /\ users' = updatePassword(q.userId, hashPassword(q.password))
            /\ passwordSets' = [passwordSets EXCEPT ![q.token] = @ + 1]
            /\ requests' = (requests \ {q}) \cup {[q EXCEPT !.pc = "consumeToken"]}
       ELSE /\ requests' = requests \ {q}
            /\ UNCHANGED <<users, passwordSets>>
  /\ UNCHANGED <<nextUserId, roleRows, userRoles, authTokens, nextTokenId,
                 sessions, nextSessionId, rolePermissions, prestartRan, spent>>
  /\ UNCHANGED nonAuth

\* POST /auth/set-password and POST /auth/bootstrap/claim: await
\* AuthTokenStore.consumeToken, then the answer.
ConsumeToken(q) ==
  /\ q \in requests
  /\ q.pc = "consumeToken"
  /\ authTokens' = consumeToken(q.tokenId)
  /\ spent' = IF q.kind = "setPassword" THEN spent \cup {q.token} ELSE spent
  /\ requests' = requests \ {q}
  /\ UNCHANGED <<users, nextUserId, roleRows, userRoles, nextTokenId, sessions,
                 nextSessionId, rolePermissions, prestartRan, passwordSets>>
  /\ UNCHANGED nonAuth

\* POST /auth/bootstrap/claim up to the eligibility test: 400, 401 and 403
\* end the request.
BootstrapClaimFind(token, email, password) ==
  LET usable == findUsableResetToken(hashToken(token))
  IN /\ Cardinality(requests) < MaxRequests
     /\ requests' =
          IF \/ parseEmail(email) = {}
             \/ usable = {}
             \/ \E t \in usable : ~isBootstrapAdmin(t.userId)
            THEN requests
            ELSE requests \cup
                   {Request("claim", "updateProfileAndPassword", token, t.id,
                            t.userId, email, password, {}) : t \in usable}
     /\ UNCHANGED <<authTables, rolePermissions, prestartRan, spent, passwordSets>>
     /\ UNCHANGED nonAuth

\* POST /auth/bootstrap/claim: RoleStore.ensureRole and await
\* UserStore.updateProfileAndPassword (it throws for a user that is gone and
\* for an address another user has).
BootstrapClaimUpdate(q) ==
  /\ q \in requests
  /\ q.kind = "claim"
  /\ q.pc = "updateProfileAndPassword"
  /\ roleRows' = roleRows \cup {"admin"}
  /\ IF q.userId \in DOMAIN users /\ ~User_emailNormalized_key(q.userId, q.email)
       THEN /\ users' = updateProfileAndPassword(q.userId, q.email,
                                                 hashPassword(q.password))
            /\ passwordSets' = [passwordSets EXCEPT ![q.token] = @ + 1]
            /\ requests' = (requests \ {q}) \cup {[q EXCEPT !.pc = "assignRole"]}
       ELSE /\ requests' = requests \ {q}
            /\ UNCHANGED <<users, passwordSets>>
  /\ UNCHANGED <<nextUserId, userRoles, authTokens, nextTokenId, sessions,
                 nextSessionId, rolePermissions, prestartRan, spent>>
  /\ UNCHANGED nonAuth

\* POST /auth/bootstrap/claim: await RoleStore.assignRole (it throws for a
\* user that is gone).
BootstrapClaimAssign(q) ==
  /\ q \in requests
  /\ q.kind = "claim"
  /\ q.pc = "assignRole"
  /\ IF q.userId \in DOMAIN users
       THEN /\ userRoles' = userRoles \cup {<<q.userId, "admin">>}
            /\ requests' = (requests \ {q}) \cup {[q EXCEPT !.pc = "consumeToken"]}
       ELSE /\ requests' = requests \ {q}
            /\ UNCHANGED userRoles
  /\ UNCHANGED <<users, nextUserId, roleRows, authTokens, nextTokenId, sessions,
                 nextSessionId, rolePermissions, prestartRan, spent, passwordSets>>
  /\ UNCHANGED nonAuth

\* POST /auth/users/:userId/roles up to the last-admin test: every refusal
\* ends the request.
ReplaceUserRolesCheck(bearer, userId, roleNames) ==
  /\ Cardinality(requests) < MaxRequests
  /\ requests' =
       IF ReplaceUserRolesReply(bearer, userId, roleNames).status = 200
         THEN requests \cup {Request("roles", "replaceUserRoles", 0, 0, userId,
                                     "", "", roleNames)}
         ELSE requests
  /\ UNCHANGED <<authTables, rolePermissions, prestartRan, spent, passwordSets>>
  /\ UNCHANGED nonAuth

\* POST /auth/users/:userId/roles: await RoleStore.replaceUserRoles (it
\* throws for a user that is gone), then the answer.
ReplaceUserRolesWrite(q) ==
  /\ q \in requests
  /\ q.kind = "roles"
  /\ q.pc = "replaceUserRoles"
  /\ requests' = requests \ {q}
  /\ userRoles' = IF q.userId \in DOMAIN users
                    THEN replaceUserRoles(q.userId, q.roleNames)
                    ELSE userRoles
  /\ UNCHANGED <<users, nextUserId, roleRows, authTokens, nextTokenId, sessions,
                 nextSessionId, rolePermissions, prestartRan, spent, passwordSets>>
  /\ UNCHANGED nonAuth

InitAuth ==
  /\ users = << >>
  /\ nextUserId = 1
  /\ roleRows = {}
  /\ userRoles = {}
  /\ authTokens = {}
  /\ nextTokenId = 1
  /\ sessions = {}
  /\ nextSessionId = 1
  /\ rolePermissions = {}
  /\ prestartRan = FALSE
  /\ spent = {}
  /\ requests = {}
  /\ passwordSets = [t \in TokenValues |-> 0]

\* The requests are drawn from every token value, address, password, bearer,
\* user id and set of role names; where a handler returns before it reads an
\* input, that input is fixed. Logins with a password that fails to verify
\* are left to SpecSession.
NextAuth ==
  \/ RunPrestart
  \/ Tick
  \/ BootstrapStatus
  \/ \E token \in TokenValues, email \in EmailInputs, password \in Passwords :
       /\ parseEmail(email) = {} => token = 1
       /\ (parseEmail(email) = {} \/ findUsableResetToken(hashToken(token)) = {})
            => password = "pw1"
       /\ BootstrapClaim(token, email, password)
  \/ \E token \in TokenValues, password \in Passwords :
       /\ findUsableResetToken(hashToken(token)) = {} => password = "pw1"
       /\ SetPassword(token, password)
  \/ \E email \in EmailInputs, password \in Passwords :
       /\ parseEmail(email) = {} => password = "pw1"
       /\ \A u \in LoginUser(email) :
            users[u].passwordHash = NoPasswordHash
              \/ verifyPassword(password, users[u].passwordHash)
       /\ Login(email, password)
  \/ \E bearer \in SessionValues \cup {NoBearer}, email \in EmailInputs :
       /\ requireAdminSession(bearer) # 200 => email = BOOTSTRAP_EMAIL
       /\ CreateUser(bearer, email)
  \/ \E bearer \in SessionValues \cup {NoBearer}, userId \in UserIds,
        roleNames \in SUBSET RoleNames :
       /\ requireAdminSession(bearer) # 200 => (userId = 1 /\ roleNames = {})
       /\ roleNames = {} => userId = 1
       /\ ReplaceUserRoles(bearer, userId, roleNames)

(***************************************************************************)
(* The agent (src/apps/node/src/index.ts)                                  *)
(***************************************************************************)
\* Broker credentials an exchange can return.
Credentials == {"c1", "c2"}

\* BrokerCredentials | null.
NoCredentials == "null"

\* lastSystemInfoHash null.
NoSystemInfoHash == "null"

\* No publishSystemInfoIfNeeded call is suspended.
NoCall == [stage |-> "none"]

\* No re-exchange has returned differing credentials since the session
\* started.
NoReturn == [creds |-> NoCredentials, stale |-> FALSE]

\* config.systemInfoRepublishIntervalMs, in units of the agent clock.
systemInfoRepublishIntervalMs == 2

\* Mutant of sameCredentials: any two credentials are the same.
sameCredentials_Always(a, b) == TRUE

\* sameCredentials: host, port, username and password are equal.
sameCredentials(a, b) == a = b

\* client.connected: true from the connect event until the stream has closed.
connected == client \in {"connected", "ending"}

\* The variables of a runSession closure and of its client.
sessionVars == <<credentials, rotateTo, client, publishTimer, systemInfoTimer,
                 refreshTimer, publishInFlight, systemInfoInFlight,
                 lastSystemInfoHash, lastSystemInfoPublishedAt, systemInfoCall,
                 refreshes, staleRefreshes, metricsInFlight, returned, startedFrom>>

\* runSession up to mqtt.connect: a new closure with its variables at their
\* initial values; from is where main took the credentials.
runSession(c, from) ==
  /\ credentials' = c
  /\ rotateTo' = NoCredentials
  /\ client' = "connecting"
  /\ publishTimer' = FALSE
  /\ systemInfoTimer' = FALSE
  /\ refreshTimer' = FALSE
  /\ publishInFlight' = FALSE
  /\ systemInfoInFlight' = FALSE
  /\ lastSystemInfoHash' = NoSystemInfoHash
  /\ lastSystemInfoPublishedAt' = 0
  /\ systemInfoCall' = NoCall
  /\ metricsInFlight' = 0
  /\ returned' = NoReturn
  /\ startedFrom' = from
  /\ UNCHANGED <<refreshes, staleRefreshes>>

\* main at the head of while (!stopRequested), nc being nextCredentials: the
\* loop ends, or a session starts with nextCredentials, or exchangeNodeToken
\* is called.
WhileHead(nc) ==
  IF stopRequested THEN pc' = "stopped" /\ UNCHANGED sessionVars
  ELSE IF nc # NoCredentials THEN pc' = "session" /\ runSession(nc, "rotateTo")
  ELSE pc' = "exchange" /\ UNCHANGED sessionVars

\* Mutant of the end of the loop body: the sleep is not skipped.
AfterTry_AlwaysSleep == pc' = "sleep"

\* main after the try block: sleep(reconnectDelayMs) unless stop was
\* requested, else the loop condition ends the loop.
AfterTry ==
  pc' = IF stopRequested THEN "stopped" ELSE "sleep"

\* main() from its start to the first await.
MainStart ==
  /\ pc = "start"
  /\ WhileHead(nextCredentials)
  /\ UNCHANGED <<stopRequested, nextCredentials, agentNow>>
  /\ UNCHANGED <<rosterVars, storeVars, authVars>>

\* The SIGINT / SIGTERM handler.
Stop ==
  /\ ~stopRequested
  /\ stopRequested' = TRUE
  /\ UNCHANGED <<pc, nextCredentials, agentNow, sessionVars>>
  /\ UNCHANGED <<rosterVars, storeVars, authVars>>

\* exchangeNodeToken(config) of main resolves with c: runSession is called.
ExchangeOk(c) ==
  /\ pc = "exchange"
  /\ pc' = "session"
  /\ runSession(c, "exchange")
  /\ UNCHANGED <<stopRequested, nextCredentials, agentNow>>
  /\ UNCHANGED <<rosterVars, storeVars, authVars>>

\* Mutant of the failed exchange: the error ends main.
ExchangeFail_Exits ==
  /\ pc = "exchange"
  /\ pc' = "stopped"
  /\ UNCHANGED <<stopRequested, nextCredentials, agentNow, sessionVars>>
  /\ UNCHANGED <<rosterVars, storeVars, authVars>>

\* exchangeNodeToken(config) of main rejects: the catch block logs.
ExchangeFail ==
  /\ pc = "exchange"
  /\ AfterTry
  /\ UNCHANGED <<stopRequested, nextCredentials, agentNow, sessionVars>>
  /\ UNCHANGED <<rosterVars, storeVars, authVars>>

\* sleep(reconnectDelayMs) resolves.
SleepDone ==
  /\ pc = "sleep"
  /\ WhileHead(nextCredentials)
  /\ UNCHANGED <<stopRequested, nextCredentials, agentNow>>
  /\ UNCHANGED <<rosterVars, storeVars, authVars>>

\* Mutant of the guard of publishOnce: publishInFlight is not read.
publishOnceReturns_NoFlag == ~connected

\* publishOnce returns at once: publishInFlight || !client.connected.
publishOnceReturns == publishInFlight \/ ~connected

\* publishOnce up to its first await.
publishOnce ==
  IF publishOnceReturns
    THEN UNCHANGED <<publishInFlight, metricsInFlight>>
    ELSE /\ publishInFlight' = TRUE
         /\ metricsInFlight' = metricsInFlight + 1

\* publishSystemInfoIfNeeded returns at once.
publishSystemInfoReturns == systemInfoInFlight \/ ~connected

\* publishSystemInfoIfNeeded(force) up to its first await.
publishSystemInfoIfNeeded(force) ==
  IF publishSystemInfoReturns
    THEN UNCHANGED <<systemInfoInFlight, systemInfoCall>>
    ELSE /\ systemInfoInFlight' = TRUE
         /\ systemInfoCall' = [stage |-> "collect", force |-> force]

\* client.on("connect"): one metrics publish and one forced inventory publish
\* start, the three interval timers are set.
Connect ==
  /\ pc = "session"
  /\ client = "connecting"
  /\ client' = "connected"
  /\ publishInFlight' = TRUE
  /\ metricsInFlight' = metricsInFlight + 1
  /\ systemInfoInFlight' = TRUE
  /\ systemInfoCall' = [stage |-> "collect", force |-> TRUE]
  /\ publishTimer' = TRUE
  /\ systemInfoTimer' = TRUE
  /\ refreshTimer' = TRUE
  /\ UNCHANGED <<credentials, rotateTo, lastSystemInfoHash,
                 lastSystemInfoPublishedAt, refreshes, staleRefreshes, returned,
                 startedFrom>>
  /\ UNCHANGED <<pc, stopRequested, nextCredentials, agentNow>>
  /\ UNCHANGED <<rosterVars, storeVars, authVars>>

\* The publishTimer interval fires.
PublishTick ==
  /\ publishTimer
  /\ metricsInFlight < MaxInFlight
  /\ publishOnce
  /\ UNCHANGED <<credentials, rotateTo, client, publishTimer, systemInfoTimer,
                 refreshTimer, systemInfoInFlight, lastSystemInfoHash,
                 lastSystemInfoPublishedAt, systemInfoCall, refreshes,
                 staleRefreshes, returned, startedFrom>>
  /\ UNCHANGED <<pc, stopRequested, nextCredentials, agentNow>>
  /\ UNCHANGED <<rosterVars, storeVars, authVars>>

\* collectMetrics or publishAsync of a publishOnce settles (ok: the broker
\* acknowledged the publish): finally clears publishInFlight.
PublishDone(ok) ==
  /\ metricsInFlight > 0
  /\ ok => client = "connected"
  /\ publishInFlight' = FALSE
  /\ metricsInFlight' = metricsInFlight - 1
  /\ UNCHANGED <<credentials, rotateTo, client, publishTimer, systemInfoTimer,
                 refreshTimer, systemInfoInFlight, lastSystemInfoHash,
                 lastSystemInfoPublishedAt, systemInfoCall, refreshes,
                 staleRefreshes, returned, startedFrom>>
  /\ UNCHANGED <<pc, stopRequested, nextCredentials, agentNow>>
  /\ UNCHANGED <<rosterVars, storeVars, authVars>>

\* The systemInfoTimer interval fires.
SystemInfoTick ==
  /\ systemInfoTimer
  /\ publishSystemInfoIfNeeded(FALSE)
  /\ UNCHANGED <<credentials, rotateTo, client, publishTimer, systemInfoTimer,
                 refreshTimer, publishInFlight, lastSystemInfoHash,
                 lastSystemInfoPublishedAt, refreshes, staleRefreshes,
                 metricsInFlight, returned, startedFrom>>
  /\ UNCHANGED <<pc, stopRequested, nextCredentials, agentNow>>
  /\ UNCHANGED <<rosterVars, storeVars, authVars>>

\* Mutant of the publish decision: the freshness interval is not read.
shouldPublish_NoFreshness(force, hash) ==
  force \/ hash # lastSystemInfoHash

\* force || hasChanged || shouldRepublishForFreshness.
shouldPublish(force, hash) ==
  \/ force
  \/ hash # lastSystemInfoHash
  \/ agentNow - lastSystemInfoPublishedAt >= systemInfoRepublishIntervalMs

\* collectSystemInfo settles (ok: with an inventory of the hash): the publish
\* is decided and, if due, started with retain: true.
SystemInfoCollected(hash, ok) ==
  /\ systemInfoCall.stage = "collect"
  /\ IF ok /\ shouldPublish(systemInfoCall.force, hash)
       THEN /\ systemInfoCall' = [stage |-> "publish", hash |-> hash,
                                  now |-> agentNow, retain |-> TRUE]
            /\ UNCHANGED systemInfoInFlight
       ELSE /\ systemInfoCall' = NoCall
            /\ systemInfoInFlight' = FALSE
  /\ UNCHANGED <<credentials, rotateTo, client, publishTimer, systemInfoTimer,
                 refreshTimer, publishInFlight, lastSystemInfoHash,
                 lastSystemInfoPublishedAt, refreshes, staleRefreshes,
                 metricsInFlight, returned, startedFrom>>
  /\ UNCHANGED <<pc, stopRequested, nextCredentials, agentNow>>
  /\ UNCHANGED <<rosterVars, storeVars, authVars>>

\* publishAsync of the inventory settles (ok: acknowledged): on success the
\* last-published hash and time are recorded; finally clears the flag.
SystemInfoPublishDone(ok) ==
  /\ systemInfoCall.stage = "publish"
  /\ ok => client = "connected"
  /\ IF ok
       THEN /\ lastSystemInfoHash' = systemInfoCall.hash
            /\ lastSystemInfoPublishedAt' = systemInfoCall.now
       ELSE UNCHANGED <<lastSystemInfoHash, lastSystemInfoPublishedAt>>
  /\ systemInfoCall' = NoCall
  /\ systemInfoInFlight' = FALSE
  /\ UNCHANGED <<credentials, rotateTo, client, publishTimer, systemInfoTimer,
                 refreshTimer, publishInFlight, refreshes, staleRefreshes,
                 metricsInFlight, returned, startedFrom>>
  /\ UNCHANGED <<pc, stopRequested, nextCredentials, agentNow>>
  /\ UNCHANGED <<rosterVars, storeVars, authVars>>

\* The refreshTimer interval fires: refreshCredentials() is called.
RefreshTick ==
  /\ refreshTimer
  /\ refreshes < MaxRefreshes
  /\ refreshes' = refreshes + 1
  /\ UNCHANGED <<credentials, rotateTo, client, publishTimer, systemInfoTimer,
                 refreshTimer, publishInFlight, systemInfoInFlight,
                 lastSystemInfoHash, lastSystemInfoPublishedAt, systemInfoCall,
                 staleRefreshes, metricsInFlight, returned, startedFrom>>
  /\ UNCHANGED <<pc, stopRequested, nextCredentials, agentNow>>
  /\ UNCHANGED <<rosterVars, storeVars, authVars>>

\* refreshCredentials() of the session resolves with c: differing credentials
\* are kept in rotateTo and the client is ended.
RefreshReturn(c) ==
  /\ refreshes > 0
  /\ refreshes' = refreshes - 1
  /\ IF sameCredentials(c, credentials)
       THEN UNCHANGED <<rotateTo, client, returned>>
       ELSE /\ rotateTo' = c
            /\ client' = "ending"
            /\ returned' = [creds |-> c, stale |-> FALSE]
  /\ UNCHANGED <<credentials, publishTimer, systemInfoTimer, refreshTimer,
                 publishInFlight, systemInfoInFlight, lastSystemInfoHash,
                 lastSystemInfoPublishedAt, systemInfoCall, staleRefreshes,
                 metricsInFlight, startedFrom>>
  /\ UNCHANGED <<pc, stopRequested, nextCredentials, agentNow>>
  /\ UNCHANGED <<rosterVars, storeVars, authVars>>

\* refreshCredentials() of the session rejects: the catch block logs.
RefreshFail ==
  /\ refreshes > 0
  /\ refreshes' = refreshes - 1
  /\ UNCHANGED <<credentials, rotateTo, client, publishTimer, systemInfoTimer,
                 refreshTimer, publishInFlight, systemInfoInFlight,
                 lastSystemInfoHash, lastSystemInfoPublishedAt, systemInfoCall,
                 staleRefreshes, metricsInFlight, returned, startedFrom>>
  /\ UNCHANGED <<pc, stopRequested, nextCredentials, agentNow>>
  /\ UNCHANGED <<rosterVars, storeVars, authVars>>

\* refreshCredentials() of a session that has ended (its credentials were
\* old) settles, with c or with an error (c = NoCredentials): rotateTo of
\* that closure and end() of its closed client have no effect on main.
StaleRefreshSettles(old, c) ==
  /\ old \in staleRefreshes
  /\ staleRefreshes' = staleRefreshes \ {old}
  /\ returned' = IF c # NoCredentials /\ ~sameCredentials(c, old)
                   THEN [creds |-> c, stale |-> TRUE]
                   ELSE returned
  /\ UNCHANGED <<credentials, rotateTo, client, publishTimer, systemInfoTimer,
                 refreshTimer, publishInFlight, systemInfoInFlight,
                 lastSystemInfoHash, lastSystemInfoPublishedAt, systemInfoCall,
                 refreshes, metricsInFlight, startedFrom>>
  /\ UNCHANGED <<pc, stopRequested, nextCredentials, agentNow>>
  /\ UNCHANGED <<rosterVars, storeVars, authVars>>

\* Mutant of cleanup(): the refresh interval is left running.
cleanup_KeepsRefresh ==
  /\ publishTimer' = FALSE
  /\ systemInfoTimer' = FALSE
  /\ refreshTimer' = refreshTimer

\* cleanup(): the three intervals are cleared.
cleanup ==
  /\ publishTimer' = FALSE
  /\ systemInfoTimer' = FALSE
  /\ refreshTimer' = FALSE

\* client.on("close") (the connect failed, the broker dropped the connection
\* or end(true) finished): cleanup(), resolve(rotateTo); main assigns
\* nextCredentials and leaves the try block.
ClientClose ==
  /\ pc = "session"
  /\ client \in {"connecting", "connected", "ending"}
  /\ client' = "closed"
  /\ cleanup
  /\ nextCredentials' = rotateTo
  /\ AfterTry
  /\ staleRefreshes' = IF refreshes > 0 THEN staleRefreshes \cup {credentials}
                       ELSE staleRefreshes
  /\ refreshes' = 0
  /\ UNCHANGED <<credentials, rotateTo, publishInFlight, systemInfoInFlight,
                 lastSystemInfoHash, lastSystemInfoPublishedAt, systemInfoCall,
                 metricsInFlight, returned, startedFrom>>
  /\ UNCHANGED <<stopRequested, agentNow>>
  /\ UNCHANGED <<rosterVars, storeVars, authVars>>

\* The clock of the agent advances.
AgentTick ==
  /\ agentNow < MaxAgentNow
  /\ agentNow' = agentNow + 1
  /\ UNCHANGED <<pc, stopRequested, nextCredentials, sessionVars>>
  /\ UNCHANGED <<rosterVars, storeVars, authVars>>

\* The agent process has been started with NODE_ID and NODE_TOKEN set; its
\* clock is an epoch time, so no smaller than the republish interval.
InitAgent ==
  /\ pc = "start"
  /\ stopRequested = FALSE
  /\ nextCredentials = NoCredentials
  /\ credentials = NoCredentials
  /\ rotateTo = NoCredentials
  /\ client = "none"
  /\ publishTimer = FALSE
  /\ systemInfoTimer = FALSE
  /\ refreshTimer = FALSE
  /\ publishInFlight = FALSE
  /\ systemInfoInFlight = FALSE
  /\ lastSystemInfoHash = NoSystemInfoHash
  /\ lastSystemInfoPublishedAt = 0
  /\ systemInfoCall = NoCall
  /\ refreshes = 0
  /\ staleRefreshes = {}
  /\ agentNow = systemInfoRepublishIntervalMs
  /\ metricsInFlight = 0
  /\ returned = NoReturn
  /\ startedFrom = "none"

NextAgent ==
  \/ MainStart
  \/ Stop
  \/ \E c \in Credentials : ExchangeOk(c)
  \/ ExchangeFail
  \/ SleepDone
  \/ Connect
  \/ PublishTick
  \/ \E ok \in BOOLEAN : PublishDone(ok)
  \/ SystemInfoTick
  \/ \E hash \in Hashes, ok \in BOOLEAN :
       /\ ~ok => hash = "h1"
       /\ SystemInfoCollected(hash, ok)
  \/ \E ok \in BOOLEAN : SystemInfoPublishDone(ok)
  \/ RefreshTick
  \/ \E c \in Credentials : RefreshReturn(c)
  \/ RefreshFail
  \/ \E old \in Credentials, c \in Credentials \cup {NoCredentials} :
       StaleRefreshSettles(old, c)
  \/ ClientClose
  \/ AgentTick

Init == InitRoster /\ InitStore /\ InitAuth /\ InitAgent

SpecRoster == Init /\ [][NextRoster]_vars

\* The roster with one dashboard, which connects and closes once.
NextRosterSingle ==
  \/ WsConnection(1)
  \/ WsClosing(1)
  \/ WsCloseEvent(1)
  \/ RosterSignal
  \/ BroadcastTimerFire
  \/ \E r \in reads : ReadOk(r)
  \/ \E r \in reads : ReadFail(r)

\* That roster with its timer: a scheduled setTimeout callback runs.
SpecRosterFair == Init /\ [][NextRosterSingle]_vars /\ WF_vars(BroadcastTimerFire)

SpecStore == Init /\ [][NextStore]_vars

SpecAuth == Init /\ [][NextAuth]_vars

SpecAgent == Init /\ [][NextAgent]_vars

\* The agent with its scheduling: main starts, the sleep timer fires, and an
\* exchange that is called again and again does not fail forever.
SpecAgentFair ==
  /\ SpecAgent
  /\ WF_vars(MainStart)
  /\ WF_vars(SleepDone)
  /\ SF_vars(\E c \in Credentials : ExchangeOk(c))

\* Concurrent requests: the handlers of set-password, bootstrap claim and the
\* role replacement run as their awaited steps, any number below MaxRequests
\* of them in flight; prestart, which runs at server start with no request
\* in flight, login and the creation of a second user provide the accounts.
NextAuthRace ==
  \/ requests = {} /\ RunPrestart
  \/ Login("Root@example.com", "pw1")
  \/ \E bearer \in SessionValues : CreateUser(bearer, BOOTSTRAP_EMAIL)
  \/ \E token \in TokenValues, password \in Passwords :
       SetPasswordFind(token, password)
  \/ \E q \in requests : SetPasswordUpdate(q)
  \/ \E q \in requests : ConsumeToken(q)
  \/ \E token \in TokenValues : BootstrapClaimFind(token, "Root@example.com", "pw1")
  \/ \E q \in requests : BootstrapClaimUpdate(q)
  \/ \E q \in requests : BootstrapClaimAssign(q)
  \/ \E bearer \in SessionValues, userId \in UserIds,
        roleNames \in (SUBSET RoleNames) \ {{}} :
       ReplaceUserRolesCheck(bearer, userId, roleNames)
  \/ \E q \in requests : ReplaceUserRolesWrite(q)

SpecAuthRace == Init /\ [][NextAuthRace]_vars

\* Sessions: the first admin is bootstrapped, then logins, session reads and
\* logouts run while hours and session lifetimes pass and an operator
\* disables or enables accounts.
NextSession ==
  \/ RunPrestart
  \/ Tick
  \/ SessionLifetimePasses
  \/ \E token \in TokenValues, password \in Passwords :
       /\ findUsableResetToken(hashToken(token)) = {} => password = "pw1"
       /\ BootstrapClaim(token, "Root@example.com", password)
  \/ \E email \in EmailInputs, password \in Passwords :
       /\ parseEmail(email) = {} => password = "pw1"
       /\ Login(email, password)
  \/ \E bearer \in SessionValues \cup {NoBearer} : Me(bearer)
  \/ \E bearer \in SessionValues \cup {NoBearer} : Logout(bearer)
  \/ \E userId \in UserIds, isDisabled \in BOOLEAN : SetDisabled(userId, isDisabled)

SpecSession == Init /\ [][NextSession]_vars

\* Access: the first admin is bootstrapped and logs in, invites a user and
\* takes the role user as well; nodes are created and deleted, the
\* permissions of the roles are replaced, and the session reads the nodes.
NextAccess ==
  \/ RunPrestart
  \/ BootstrapClaim(1, "Root@example.com", "pw1")
  \/ Login("Root@example.com", "pw1")
  \/ \E bearer \in SessionValues : CreateUser(bearer, BOOTSTRAP_EMAIL)
  \/ \E bearer \in SessionValues : ReplaceUserRoles(bearer, 1, RoleNames)
  \/ \E bearer \in SessionValues, roleName \in RoleNames,
        permissionCodes \in PermissionSets :
       SetRolePermissions(bearer, roleName, permissionCodes)
  \/ HttpCreateNode
  \/ \E id \in NodeIds : HttpDeleteNode(id)
  \/ \E bearer \in SessionValues \cup {NoBearer} : GetNodes(bearer)
  \/ \E bearer \in SessionValues \cup {NoBearer}, nodeId \in NodeIds \cup {0} :
       GetNodeMetrics(bearer, nodeId, << >>)

SpecAccess == Init /\ [][NextAccess]_vars

\* Reading metrics: an admin is bootstrapped, logs in and is given
\* nodes:read; with that session in place a node is created; the metrics
\* messages of the nodes that exist are ingested while hours pass; the
\* session reads the metrics with limit 0 and with none.
NextMetricsRead ==
  \/ RunPrestart
  \/ BootstrapClaim(1, "Root@example.com", "pw1")
  \/ Login("Root@example.com", "pw1")
  \/ \E bearer \in SessionValues :
       SetRolePermissions(bearer, "admin", {<<"nodes:read", 0>>})
  \/ /\ \E bearer \in SessionValues : sessionHasPermission(bearer, <<"nodes:read", 0>>)
     /\ HttpCreateNode
  \/ /\ inflight = {}
     /\ \E nodeId \in DOMAIN nodeRows, ts \in {now - 2, now + 1} :
          MqttMessage("metrics", nodeId, "valid", ts, "h1")
  \/ \E h \in inflight : AppendCommit(h)
  \/ Tick
  \/ \E bearer \in SessionValues, nodeId \in NodeIds,
        limit \in {<<0, 0>>, << >>} :
       GetNodeMetrics(bearer, nodeId, limit)

SpecMetricsRead == Init /\ [][NextMetricsRead]_vars

(***************************************************************************)
(* C1                                                                      *)
(***************************************************************************)
\* Frames of broadcast b that socket s has been sent.
BroadcastFrames(s, b) ==
  Cardinality({i \in 1..Len(frames[s]) :
                 frames[s][i].kind = "broadcast" /\ frames[s][i].bid = b})

\* Snapshot reads that broadcast b has started and not finished.
BroadcastReads(b) ==
  Cardinality({r \in reads : r.kind = "broadcast" /\ r.bid = b})

\* C1: at most one broadcast timer is pending at any time (the handle is set
\* iff one is), every signal of a burst was absorbed by the one timer of its
\* window, and a fired window of N signals makes one snapshot read (none when
\* no socket is connected) and sends exactly one frame to every socket that
\* is OPEN when the snapshot is sent and none to any other socket.
C1_Coalescing ==
  /\ timers <= 1
  /\ broadcastTimer <=> (timers = 1)
  /\ storeVer = (IF timers = 1 THEN burst ELSE 0)
                + (LET Sum[i \in 0..Len(bhist)] ==
                         IF i = 0 THEN 0 ELSE Sum[i - 1] + bhist[i].n
                   IN Sum[Len(bhist)])
  /\ \A b \in 1..Len(bhist) :
       /\ bhist[b].n >= 1
       /\ BroadcastReads(b) = (IF bhist[b].status = "reading" THEN 1 ELSE 0)
       /\ \A s \in Sockets :
            BroadcastFrames(s, b) =
              (IF bhist[b].status = "sent" /\ s \in bhist[b].sentTo THEN 1 ELSE 0)

\* C1 witness: a burst of several signals was coalesced into one broadcast that
\* reached every socket, all of them OPEN.
C1_Witness ==
  \E b \in 1..Len(bhist) :
    /\ bhist[b].n >= 2
    /\ bhist[b].status = "sent"
    /\ bhist[b].sentTo = Sockets

(***************************************************************************)
(* C2                                                                      *)
(***************************************************************************)
\* C2: the messages of one node are handled strictly serially in arrival
\* order, a handling starting only after the previous one has finished, so the
\* Metric rows of a node are committed in the order the broker delivered
\* their messages.
C2_SerialPerNode ==
  \A i, j \in 1..Len(metrics) :
    (i < j /\ metrics[i].nodeId = metrics[j].nodeId)
      => metrics[i].seq < metrics[j].seq

(***************************************************************************)
(* C3                                                                      *)
(***************************************************************************)
\* The newest Metric row of node n, as a set (empty when it has none).
NewestMetric(n) ==
  {metrics[i] : i \in {k \in 1..Len(metrics) :
                         /\ metrics[k].nodeId = n
                         /\ \A j \in (k + 1)..Len(metrics) : metrics[j].nodeId # n}}

\* lastSeenAt is at or after the server time of the node's newest Metric row
\* and of its NodeSystemInfo row.
LastSeenCoversRows(rows, si, mrows) ==
  \A n \in DOMAIN rows :
    /\ \A i \in 1..Len(mrows) :
         (mrows[i].nodeId = n /\ \A j \in (i + 1)..Len(mrows) : mrows[j].nodeId # n)
           => rows[n].lastSeenAt >= mrows[i].createdAt
    /\ n \in DOMAIN si => rows[n].lastSeenAt >= si[n].updatedAt

AppendBoth(h, seen) ==
  /\ h.nodeId \in DOMAIN nodeRows
  /\ Len(metrics') = Len(metrics) + 1
  /\ SubSeq(metrics', 1, Len(metrics)) = metrics
  /\ metrics'[Len(metrics')].nodeId = h.nodeId
  /\ metrics'[Len(metrics')].seq = h.seq
  /\ nodeRows' = [nodeRows EXCEPT ![h.nodeId].lastSeenAt = seen]

\* The step completes the appendNodeMetric of handler h with no effect.
AppendNone(h) ==
  /\ metrics' = metrics
  /\ nodeRows' = nodeRows

C5_NoOrphanRows ==
  /\ \A i \in 1..Len(metrics) : metrics[i].nodeId \in DOMAIN nodeRows
  /\ DOMAIN systemInfo \subseteq DOMAIN nodeRows

\* C5 witness: a deletion has removed rows by cascade while the write of an
\* ingest for the deleted node is still pending.
C5_Witness ==
  /\ cascaded >= 1
  /\ \E h \in inflight :
       /\ h.nodeId \in 1..(nextNodeId - 1)
       /\ h.nodeId \notin DOMAIN nodeRows
       /\ h.pc \in {"append", "upsertWrite"}

(***************************************************************************)
(* C6                                                                      *)
(***************************************************************************)
\* An admin session asks to replace the roles of user u, who holds admin, by
\* the existing roles R without admin, while no other user with a password
\* holds admin.
RemovesLastAdmin(bearer, u, R) ==
  /\ \E s \in sessions :
       /\ s.tokenHash = hashToken(bearer) /\ s.revokedAt = {} /\ s.expiresAt > now
       /\ <<s.userId, "admin">> \in userRoles
  /\ u \in DOMAIN users
  /\ <<u, "admin">> \in userRoles
  /\ R # {} /\ R \subseteq roleRows /\ "admin" \notin R
  /\ ~\E v \in DOMAIN users \ {u} :
        users[v].passwordHash # NoPasswordHash /\ <<v, "admin">> \in userRoles

\* C6: replacing the roles of a user who holds admin by a set without admin,
\* while no other user with a password holds admin, is answered 400 "cannot
\* remove the last credentialed admin" and changes no role assignment.
C6_AdminFloor ==
  /\ [](\A bearer \in SessionValues, u \in UserIds, R \in SUBSET RoleNames :
          RemovesLastAdmin(bearer, u, R) =>
            ReplaceUserRolesReply(bearer, u, R) =
              Reply(400, "cannot remove the last credentialed admin"))
  /\ [][\A bearer \in SessionValues, u \in UserIds, R \in SUBSET RoleNames :
          (RemovesLastAdmin(bearer, u, R) /\ ReplaceUserRoles(bearer, u, R))
            => userRoles' = userRoles]_vars

\* C6 witness: the only user with a password and the admin role holds a live
\* session and the role user exists, so the request to leave themself with
\* that role alone can be made.
C6_Witness ==
  \E bearer \in SessionValues, u \in UserIds :
    /\ RemovesLastAdmin(bearer, u, {"user"})
    /\ users[u].passwordHash # NoPasswordHash
    /\ \E s \in sessions : s.tokenHash = hashToken(bearer) /\ s.userId = u

(***************************************************************************)
(* C7                                                                      *)
(***************************************************************************)
\* C7: once runPrestart has run, some user with a password holds the admin
\* role, or a shell admin (no password, admin role) exists to be claimed.
C7_AdminOrBootstrapPending ==
  prestartRan =>
    \/ \E u \in DOMAIN users :
         users[u].passwordHash # NoPasswordHash /\ <<u, "admin">> \in userRoles
    \/ \E u \in DOMAIN users :
         users[u].passwordHash = NoPasswordHash /\ <<u, "admin">> \in userRoles

\* C7 witness: the account runPrestart created has been given a password and
\* has then lost the admin role to a replacement of its roles, another user
\* being the admin.
C7_Witness ==
  /\ prestartRan
  /\ 1 \in DOMAIN users
  /\ users[1].passwordHash # NoPasswordHash
  /\ <<1, "admin">> \notin userRoles
  /\ \E u \in DOMAIN users \ {1} : <<u, "admin">> \in userRoles

(***************************************************************************)
(* C8                                                                      *)
(***************************************************************************)
\* C8: a token a set-password has succeeded with is refused with 401 by every
\* later set-password and bootstrap claim, and no such request changes a user
\* row.
C8_TokenSingleUse ==
  /\ [](\A token \in spent, email \in Emails, password \in Passwords :
          /\ SetPasswordReply(token, password).status = 401
          /\ BootstrapClaimReply(token, email, password).status = 401)
  /\ [][\A token \in spent, email \in Emails, password \in Passwords :
          (SetPassword(token, password) \/ BootstrapClaim(token, email, password))
            => users' = users]_vars

\* C8 witness: a set-password has succeeded with a token whose row is on
\* record, consumed and not yet expired, its user holding the password.
C8_Witness ==
  \E token \in spent :
    \E t \in authTokens :
      /\ t.tokenHash = hashToken(token)
      /\ t.consumedAt # {}
      /\ t.expiresAt > now
      /\ users[t.userId].passwordHash # NoPasswordHash

(***************************************************************************)
(* C9                                                                      *)
(***************************************************************************)
\* C9: while no user with a password holds admin the status answers
\* needsBootstrap:true; a claim answered 200 leaves the status answering
\* needsBootstrap:false and the token's user with the given address, the
\* given password and the admin role, and a login with that address and
\* password is then answered 200 with a bearer.
C9_BootstrapFlow ==
  /\ []((~\E u \in DOMAIN users :
            users[u].passwordHash # NoPasswordHash /\ <<u, "admin">> \in userRoles)
          => BootstrapStatusReply = Reply(200, "needsBootstrap:true"))
  /\ [][\A token \in TokenValues, email \in Emails, password \in Passwords :
          (/\ BootstrapClaimReply(token, email, password).status = 200
           /\ BootstrapClaim(token, email, password))
            => /\ BootstrapStatusReply' = Reply(200, "needsBootstrap:false")
               /\ \A t \in authTokens :
                    t.tokenHash = hashToken(token) =>
                      /\ users'[t.userId].email = email
                      /\ users'[t.userId].passwordHash = hashPassword(password)
                      /\ <<t.userId, "admin">> \in userRoles'
               /\ LoginReply(email, password)' = Reply(200, "token")]_vars

\* C9 witness: the bootstrap token has been consumed by a claim under a
\* mixed-case address and its user, an admin with a password, has logged in.
C9_Witness ==
  \E t \in authTokens :
    /\ t.metadata # NoMetadata
    /\ t.consumedAt # {}
    /\ users[t.userId].email = "Root@example.com"
    /\ users[t.userId].passwordHash # NoPasswordHash
    /\ <<t.userId, "admin">> \in userRoles
    /\ \E s \in sessions : s.userId = t.userId

(***************************************************************************)
(* C10                                                                     *)
(***************************************************************************)
\* The reset tokens on record for a token value that are unconsumed and
\* unexpired.
UsableRows(token) ==
  {t \in authTokens :
     t.tokenHash = hashToken(token) /\ t.consumedAt = {} /\ t.expiresAt > now}

\* The user of the row has no password and holds the admin role.
EligibleRow(t) ==
  /\ users[t.userId].passwordHash = NoPasswordHash
  /\ <<t.userId, "admin">> \in userRoles

\* C10: a claim is answered 200 only for an unconsumed, unexpired reset token
\* whose user has no password and holds admin; a usable token of any other
\* user is answered 403, an unknown, expired or consumed token 401, and a
\* claim answered 401 or 403 changes no user, role assignment or token.
C10_ClaimEligibility ==
  /\ [](\A token \in TokenValues, email \in Emails, password \in Passwords :
          LET status == BootstrapClaimReply(token, email, password).status
          IN /\ status = 200 =>
                  (UsableRows(token) # {} /\ \A t \in UsableRows(token) : EligibleRow(t))
             /\ (\E t \in UsableRows(token) : ~EligibleRow(t)) => status = 403
             /\ UsableRows(token) = {} => status = 401)
  /\ [][<<users, userRoles, authTokens>>' # <<users, userRoles, authTokens>> =>
          \A token \in TokenValues, email \in Emails, password \in Passwords :
            ~(/\ BootstrapClaimReply(token, email, password).status \in {401, 403}
              /\ BootstrapClaim(token, email, password))]_vars

\* C10 witness: on record are a usable token of a user without the admin
\* role and a consumed token.
C10_Witness ==
  /\ \E t \in authTokens :
       /\ t.consumedAt = {} /\ t.expiresAt > now
       /\ <<t.userId, "admin">> \notin userRoles
  /\ \E t \in authTokens : t.consumedAt # {}

\* ---------------------------------------------------------------------------
\* C11: secret containment.
\* ---------------------------------------------------------------------------

\* C11: no AuthToken row holds the plaintext of the token it was made for:
\* the row keeps the SHA-256 hash alone, and no column of the row is a value
\* whose hash is the row's tokenHash.
C11_SecretContainment ==
  \A t \in authTokens :
    \A m \in t.metadata : hashToken(m.bootstrapToken) # t.tokenHash

\* ---------------------------------------------------------------------------
\* C12: one active reset token per user.
\* ---------------------------------------------------------------------------

\* The unconsumed, unexpired RESET_PASSWORD rows of a user.
ActiveResetTokens(userId) ==
  {t \in authTokens : t.userId = userId /\ t.consumedAt = {} /\ t.expiresAt > now}

\* The unconsumed RESET_PASSWORD rows of a user, expired ones included.
UnconsumedResetTokens(userId) ==
  {t \in authTokens : t.userId = userId /\ t.consumedAt = {}}

\* C12: every user has at most one active (unconsumed and unexpired)
\* RESET_PASSWORD token, whatever sequence of prestart, user creation,
\* password setting and claim has run; a rotation leaves no older unconsumed
\* row of the user behind, expired or not.
C12_OneActiveResetToken ==
  \A u \in UserIds :
    /\ Cardinality(ActiveResetTokens(u)) <= 1
    /\ Cardinality(UnconsumedResetTokens(u)) <= 1

\* C12 witness: prestart has rotated the bootstrap token: the user's one
\* active row is the second token minted for them.
C12_Witness ==
  \E u \in UserIds, t \in authTokens :
    /\ ActiveResetTokens(u) = {t}
    /\ t.metadata # NoMetadata
    /\ t.id >= 2

\* ---------------------------------------------------------------------------
\* C13: session validity.
\* ---------------------------------------------------------------------------

\* A Session row of the bearer's hash that is neither revoked nor expired.
LiveSessionRow(bearer) ==
  \E s \in sessions :
    /\ s.tokenHash = hashToken(bearer)
    /\ s.revokedAt = {}
    /\ s.expiresAt > now

\* A Session row of the bearer's hash that is revoked or expired.
DeadSessionRow(bearer) ==
  \E s \in sessions :
    /\ s.tokenHash = hashToken(bearer)
    /\ (s.revokedAt # {} \/ s.expiresAt <= now)

\* C13: GET /auth/me and requireAdminSession accept a bearer token exactly
\* when a Session row with its hash is unrevoked and unexpired; a token that
\* was logged out, or whose session is revoked or expired, is refused from
\* then on.
C13_SessionValidity ==
  /\ [](\A bearer \in SessionValues :
          /\ MeReply(bearer).status = 200 <=> LiveSessionRow(bearer)
          /\ requireAdminSession(bearer) # 401 <=> LiveSessionRow(bearer))
  /\ [](MeReply(NoBearer).status = 401 /\ requireAdminSession(NoBearer) = 401)
  /\ [][\A bearer \in SessionValues :
          /\ DeadSessionRow(bearer) => MeReply(bearer)'.status = 401
          /\ Logout(bearer) => (MeReply(bearer)'.status = 401
                                /\ requireAdminSession(bearer)' = 401)]_vars

\* C13 witness: a session that was logged out has since expired as well.
C13_Witness ==
  \E s \in sessions : s.revokedAt # {} /\ s.expiresAt <= now

\* ---------------------------------------------------------------------------
\* C14: login bookkeeping.
\* ---------------------------------------------------------------------------

\* The users a login with the address is about.
LoginUsers(email) ==
  IF parseEmail(email) = {} THEN {}
  ELSE {u \in DOMAIN users : users[u].emailNormalized = normalizeEmail(email)}

\* The user has a password and the password of the request verifies.
PasswordVerifies(u, password) ==
  /\ users[u].passwordHash # NoPasswordHash
  /\ verifyPassword(password, users[u].passwordHash)

\* C14: a login creates a session only for an existing user with a password
\* that verifies and whose account is not disabled, and then it always does;
\* failedLoginCount of a user is incremented exactly when the password of a
\* login for that user fails to verify, zeroed exactly when the login
\* succeeds, and left alone otherwise (no such user, a shell user, a
\* disabled account with the right password, any other user).
C14_LoginBookkeeping ==
  [][\A email \in EmailInputs, password \in Passwords :
       Login(email, password) =>
         LET found == LoginUsers(email)
             success == \E u \in found :
                          PasswordVerifies(u, password) /\ ~users[u].isDisabled
         IN /\ sessions' # sessions <=> success
            /\ success => \E s \in sessions' \ sessions :
                            s.userId \in found /\ s.revokedAt = {}
            /\ \A u \in DOMAIN users :
                 users'[u].failedLoginCount =
                   IF u \in found /\ users[u].passwordHash # NoPasswordHash
                      /\ ~verifyPassword(password, users[u].passwordHash)
                     THEN users[u].failedLoginCount + 1
                   ELSE IF u \in found /\ PasswordVerifies(u, password)
                           /\ ~users[u].isDisabled
                     THEN 0
                   ELSE users[u].failedLoginCount]_vars

\* C14 witness: a user has logged in, has then been disabled, and a login
\* with a wrong password has been counted against them.
C14_Witness ==
  \E u \in DOMAIN users :
    /\ users[u].isDisabled
    /\ users[u].failedLoginCount >= 1
    /\ \E s \in sessions : s.userId = u

\* ---------------------------------------------------------------------------
\* C15: node token round trip.
\* ---------------------------------------------------------------------------

\* The tables of the database.
StoredTables ==
  <<nodeRows, metrics, systemInfo, users, roleRows, userRoles, authTokens, sessions>>

\* The Node table with the authTokenHash of node n cleared.
WithoutAuthTokenHash(n) ==
  [nodeRows EXCEPT ![n].authTokenHash = NoAuthTokenHash]

\* C15: for a node made by CreateNode the exchange succeeds exactly with a
\* token whose SHA-256 hash is the stored authTokenHash, so with the token
\* minted at creation and not with that token altered; it answers 401 for an
\* unknown node and for a node without authTokenHash; and it never changes
\* stored state: no step that changes a table is an exchange.
C15_ExchangeRoundTrip ==
  /\ [](\A nodeId \in NodeIds, nodeToken \in NodeTokenInputs :
          LET status == ExchangeNodeTokenReply(nodeRows, nodeId, nodeToken).status
          IN /\ status = 200 <=>
                  /\ nodeId \in DOMAIN nodeRows
                  /\ nodeToken # NoNodeToken
                  /\ hashToken(nodeToken) = nodeRows[nodeId].authTokenHash
             /\ (nodeId \notin DOMAIN nodeRows /\ nodeToken # NoNodeToken)
                  => status = 401
             /\ nodeId \in DOMAIN nodeRows =>
                  /\ (nodeToken = <<"T", nodeId>>) => status = 200
                  /\ (nodeToken = <<"X", nodeId>>) => status = 401
                  /\ nodeToken # NoNodeToken =>
                       ExchangeNodeTokenReply(WithoutAuthTokenHash(nodeId),
                                              nodeId, nodeToken).status = 401)
  /\ [][StoredTables' # StoredTables =>
          \A nodeId \in NodeIds, nodeToken \in NodeTokenInputs :
            ~ExchangeNodeToken(nodeId, nodeToken)]_vars

\* C15 witness: a node made by CreateNode whose minted token is exchanged
\* and whose altered token is refused.
C15_Witness ==
  \E n \in DOMAIN nodeRows :
    /\ nodeRows[n].authTokenHash # NoAuthTokenHash
    /\ ExchangeNodeTokenReply(nodeRows, n, <<"T", n>>).status = 200
    /\ ExchangeNodeTokenReply(nodeRows, n, <<"X", n>>).status = 401

\* ---------------------------------------------------------------------------
\* C16: credential rotation of the agent.
\* ---------------------------------------------------------------------------

\* A step in which main calls runSession.
SessionStarts == pc # "session" /\ pc' = "session"

C17_OnePublishInFlight ==
  /\ [](metricsInFlight <= 1 /\ (publishInFlight <=> metricsInFlight = 1))
  /\ [][(PublishTick /\ (publishInFlight \/ ~connected))
          => UNCHANGED <<metricsInFlight, publishInFlight>>]_vars
  /\ [][\A ok \in BOOLEAN :
          PublishDone(ok) => (~publishInFlight' /\ metricsInFlight' = 0)]_vars

\* C17 witness: a metrics publish is in flight while the publish timer of
\* the session is set and its client is being ended.
C17_Witness ==
  /\ publishTimer
  /\ publishInFlight
  /\ metricsInFlight = 1
  /\ client = "ending"

\* ---------------------------------------------------------------------------
\* C18: inventory publishing of the agent.
\* ---------------------------------------------------------------------------

\* C18: the connect starts one forced inventory check; a check whose
\* inventory was collected publishes exactly when it is forced, or the hash
\* differs from the hash of the last successful publish of the session, or
\* the republish interval has elapsed since that publish; every inventory
\* publish is retained; and within a session the last-published hash and
\* time change only when a publish was acknowledged.
C18_InventoryPublish ==
  /\ [][Connect => systemInfoCall' = [stage |-> "collect", force |-> TRUE]]_vars
  /\ [][\A hash \in Hashes, ok \in BOOLEAN :
          SystemInfoCollected(hash, ok) =>
            (systemInfoCall'.stage = "publish" <=>
               /\ ok
               /\ \/ systemInfoCall.force
                  \/ hash # lastSystemInfoHash
                  \/ agentNow - lastSystemInfoPublishedAt
                       >= systemInfoRepublishIntervalMs)]_vars
  /\ [](systemInfoCall.stage = "publish" => systemInfoCall.retain)
  /\ [][(\/ lastSystemInfoHash' # lastSystemInfoHash
         \/ lastSystemInfoPublishedAt' # lastSystemInfoPublishedAt)
          => \/ SessionStarts
             \/ /\ SystemInfoPublishDone(TRUE)
                /\ lastSystemInfoHash' = systemInfoCall.hash
                /\ lastSystemInfoPublishedAt' = systemInfoCall.now]_vars

\* C18 witness: an unforced check republishes an unchanged inventory because
\* the republish interval has elapsed since the last successful publish.
C18_Witness ==
  /\ systemInfoCall.stage = "publish"
  /\ systemInfoCall.hash = lastSystemInfoHash
  /\ lastSystemInfoPublishedAt > 0
  /\ systemInfoCall.now - lastSystemInfoPublishedAt >= systemInfoRepublishIntervalMs

\* ---------------------------------------------------------------------------
\* C19: stop of the agent.
\* ---------------------------------------------------------------------------

\* A step in which the session ends: the close event resolves runSession.
SessionEnds == pc = "session" /\ client # "closed" /\ client' = "closed"

\* C19: when the session ends after stop was requested, main leaves the loop
\* in that step, without the reconnect sleep; when stop is requested during
\* the sleep that follows a session, main leaves the loop as the sleep ends;
\* once main has left the loop it stays there, no exchange is called and no
\* session or connection is started, and no interval timer is left that
\* would keep the process alive.
C19_StopExits ==
  /\ [][(SessionEnds /\ stopRequested) => pc' = "stopped"]_vars
  /\ [][(pc = "sleep" /\ stopRequested) => pc' \in {"sleep", "stopped"}]_vars
  /\ [][pc = "stopped" =>
          /\ pc' = "stopped"
          /\ client' = client
          /\ refreshes' <= refreshes]_vars
  /\ [](pc = "stopped" =>
          /\ stopRequested
          /\ client \in {"none", "closed"}
          /\ ~publishTimer /\ ~systemInfoTimer /\ ~refreshTimer
          /\ refreshes = 0)

\* C19 witness: the agent has stopped after a session that started from an
\* exchange has been closed.
C19_Witness ==
  /\ pc = "stopped"
  /\ client = "closed"
  /\ startedFrom = "exchange"

\* ---------------------------------------------------------------------------
\* C20: the agent keeps running.
\* ---------------------------------------------------------------------------

NextMessage ==
  \E topic \in Topics, nodeId \in NodeIds, body \in Bodies, hash \in Hashes :
    MqttMessage(topic, nodeId, body, now + 1, hash)

\* C21: a message with malformed JSON, with a payload the schema rejects, or
\* whose store write fails, leaves no Metric row and no NodeSystemInfo row:
\* the step that drops it changes neither table nor the Node table, and no
\* Metric row ever carries a dropped message. The call of handleMqttMessage
\* has returned when the message is dropped (no call is left pending or
\* rejected for it), and the message listener goes on taking messages: the
\* next delivery is handled whatever was dropped before.
C21_DropsAreSilent ==
  /\ [](\A i \in 1..Len(metrics) : metrics[i].seq \notin dropped)
  /\ [](\A h \in inflight : /\ h.seq \notin dropped
                            /\ h.pc \in {"append", "upsertRead", "upsertWrite"})
  /\ [](delivered < MaxDeliveries => ENABLED NextMessage)
  /\ [][dropped' # dropped =>
          /\ metrics' = metrics
          /\ systemInfo' = systemInfo
          /\ nodeRows' = nodeRows
          /\ \A h \in inflight' : h.seq \notin dropped']_vars

\* Witness: the first message was dropped, the second one, delivered after
\* it, is stored as a Metric row.
C21_Witness ==
  /\ 1 \in dropped
  /\ \E i \in 1..Len(metrics) : metrics[i].seq = 2

(***************************************************************************)
(* C22: inventory idempotence                                              *)
(***************************************************************************)
\* The hash of the NodeSystemInfo row of node n, as a set (empty without a row).
StoredHash(n) ==
  IF n \in DOMAIN systemInfo THEN {systemInfo[n].hash} ELSE {}

\* The step completes the upsertNodeSystemInfo call of handler h without an
\* error.
UpsertReturns(h) ==
  /\ h \in inflight
  /\ h.pc = "upsertWrite"
  /\ h \notin inflight'
  /\ h.seq \notin dropped'

\* C22: an upsertNodeSystemInfo whose payload hash equals the stored hash
\* leaves the NodeSystemInfo row as it is and sets Node.lastSeenAt; with
\* another stored hash, or no row, it stores hash and reportedTs of the
\* payload and sets Node.lastSeenAt.
C22_InventoryIdempotent ==
  [][\A h \in inflight :
       UpsertReturns(h) =>
         /\ nodeRows'[h.nodeId].lastSeenAt = ToBigInt(h.ts)
         /\ IF StoredHash(h.nodeId) = {h.hash}
              THEN systemInfo' = systemInfo
              ELSE /\ h.nodeId \in DOMAIN systemInfo'
                   /\ systemInfo'[h.nodeId].hash = h.hash
                   /\ systemInfo'[h.nodeId].reportedTs = ToBigInt(h.ts)]_vars

(***************************************************************************)
(* C23: what runPrestart leaves behind                                     *)
(***************************************************************************)
\* The accounts of the bootstrap address in the User table us.
ReservedAccounts(us) ==
  {u \in DOMAIN us : us[u].emailNormalized = toLowerCase(BOOTSTRAP_EMAIL)}

\* A user with a password and the admin role exists under another address.
OtherCredentialedAdmin ==
  \E u \in DOMAIN users \ ReservedAccounts(users) :
    users[u].passwordHash # NoPasswordHash /\ <<u, "admin">> \in userRoles

\* The unconsumed, unexpired reset tokens of user u that carry the bootstrap
\* token, in the AuthToken table ts.
PendingBootstrapTokens(ts, u) ==
  {t \in ts : /\ t.userId = u
              /\ t.consumedAt = {}
              /\ t.expiresAt > now
              /\ t.metadata # NoMetadata}

\* In the tables us, urs, ts a shell account of the bootstrap address exists
\* with the admin role and a pending bootstrap token.
ShellAdminPending(us, urs, ts) ==
  \E u \in ReservedAccounts(us) :
    /\ us[u].passwordHash = NoPasswordHash
    /\ <<u, "admin">> \in urs
    /\ PendingBootstrapTokens(ts, u) # {}

\* A run of prestart in this state changes nothing at all.
PrestartIdle == ENABLED (RunPrestart /\ UNCHANGED vars)

\* C23 as stated: with a credentialed admin under another address the account
\* of the bootstrap address is gone after prestart; in every other case the
\* shell admin exists afterwards with the admin role and a pending bootstrap
\* token, and a run that finds the token pending does not rotate it. The
\* first conjunct is about the runs that change nothing, the second about
\* those that change something.
C23_PrestartAlwaysPending ==
  /\ [](PrestartIdle =>
          IF OtherCredentialedAdmin
            THEN ReservedAccounts(users) = {}
            ELSE ShellAdminPending(users, userRoles, authTokens))
  /\ [][RunPrestart =>
          IF OtherCredentialedAdmin
            THEN ReservedAccounts(users') = {}
            ELSE /\ ShellAdminPending(users', userRoles', authTokens')
                 /\ ShellAdminPending(users, userRoles, authTokens)
                      => authTokens' = authTokens /\ nextTokenId' = nextTokenId]_vars

\* C23, amended: as above, except that when the account of the bootstrap
\* address itself has a password (and no credentialed admin exists under
\* another address) prestart changes nothing: no role, no token.
C23_Prestart ==
  /\ [](PrestartIdle =>
          IF OtherCredentialedAdmin
            THEN ReservedAccounts(users) = {}
            ELSE \/ \E u \in ReservedAccounts(users) :
                      users[u].passwordHash # NoPasswordHash
                 \/ ShellAdminPending(users, userRoles, authTokens))
  /\ []((\E u \in ReservedAccounts(users) : users[u].passwordHash # NoPasswordHash)
          /\ ~OtherCredentialedAdmin /\ prestartRan => PrestartIdle)
  /\ [][RunPrestart =>
          IF OtherCredentialedAdmin
            THEN /\ ReservedAccounts(users') = {}
                 /\ \A u \in DOMAIN users \ ReservedAccounts(users) :
                      u \in DOMAIN users' /\ users'[u] = users[u]
          ELSE IF \E u \in ReservedAccounts(users) :
                    users[u].passwordHash # NoPasswordHash
            THEN UNCHANGED authTables
          ELSE /\ ShellAdminPending(users', userRoles', authTokens')
               /\ ShellAdminPending(users, userRoles, authTokens)
                    => authTokens' = authTokens /\ nextTokenId' = nextTokenId]_vars

\* Witness: prestart has deleted the account of the bootstrap address (a user
\* id below the next one has no row) while an admin with a password exists,
\* and no account of that address is on record.
C23_Witness ==
  /\ prestartRan
  /\ \E u \in 1..(nextUserId - 1) : u \notin DOMAIN users
  /\ ReservedAccounts(users) = {}
  /\ hasCredentialedAdmin

(***************************************************************************)
(* C24: the invited user, from the invitation to the first login           *)
(***************************************************************************)
\* The setup tokens on record: reset tokens minted by POST /auth/users (they
\* carry no metadata).
SetupTokens == {t \in authTokens : t.metadata = NoMetadata}

\* C24: a POST /auth/users answered 201 leaves a new user without a password,
\* holding the role user, with exactly one active reset token, which the
\* plaintext returned opens. While the setup token of a user is unconsumed the
\* user has no password and every login with the user's address is answered
\* 401 invalid credentials. A set-password answered 200 for a setup token
\* leaves the token's user with the chosen password, and a login with the
\* user's address and that password is then answered 200 with a bearer.
C24_InvitedUser ==
  /\ [](\A t \in SetupTokens :
          t.consumedAt = {} =>
            /\ users[t.userId].passwordHash = NoPasswordHash
            /\ \A password \in Passwords :
                 LoginReply(users[t.userId].email, password)
                   = Reply(401, "invalid credentials"))
  /\ [][\A bearer \in SessionValues, email \in Emails :
          (/\ CreateUserReply(bearer, email).status = 201
           /\ CreateUser(bearer, email))
            => /\ DOMAIN users' = DOMAIN users \cup {nextUserId}
               /\ nextUserId \notin DOMAIN users
               /\ users'[nextUserId].passwordHash = NoPasswordHash
               /\ users'[nextUserId].emailNormalized = toLowerCase(email)
               /\ {r \in RoleNames : <<nextUserId, r>> \in userRoles'} = {"user"}
               /\ \A u \in {nextUserId} :
                    /\ Cardinality(ActiveResetTokens(u)') = 1
                    /\ \A t \in ActiveResetTokens(u)' :
                         /\ t.tokenHash = hashToken(nextTokenId)
                         /\ t.metadata = NoMetadata]_vars
  /\ [][\A token \in TokenValues, password \in Passwords :
          (/\ SetPasswordReply(token, password).status = 200
           /\ SetPassword(token, password))
            => \A t \in SetupTokens :
                 t.tokenHash = hashToken(token) =>
                   /\ users'[t.userId].passwordHash = hashPassword(password)
                   /\ LoginReply(users[t.userId].email, password)'
                        = Reply(200, "token")]_vars

\* Witness: a set-password has succeeded with the setup token of an invited
\* user, who holds the role user and whose login with the chosen password is
\* answered 200.
C24_Witness ==
  \E token \in spent :
    \E t \in SetupTokens :
      /\ t.tokenHash = hashToken(token)
      /\ t.consumedAt # {}
      /\ <<t.userId, "user">> \in userRoles
      /\ \E password \in Passwords :
           LoginReply(users[t.userId].email, password) = Reply(200, "token")

(***************************************************************************)
(* C25: POST /auth/users with an address that is taken                     *)
(***************************************************************************)
\* The request comes from an admin session and carries a well-formed address
\* whose normalized form a user already has.
DuplicateEmail(bearer, email) ==
  /\ requireAdminSession(bearer) = 200
  /\ parseEmail(email) # {}
  /\ findByEmail(normalizeEmail(email)) # {}

\* C25: POST /auth/users with an address whose normalized form a user already
\* has is answered 409 and creates no user, no role assignment and no token.
C25_DuplicateEmailConflict ==
  /\ [](\A bearer \in SessionValues, email \in Emails :
          DuplicateEmail(bearer, email)
            => CreateUserReply(bearer, email).status = 409)
  /\ [][\A bearer \in SessionValues, email \in Emails :
          (DuplicateEmail(bearer, email) /\ CreateUser(bearer, email))
            => UNCHANGED <<users, userRoles, authTokens>>]_vars

(***************************************************************************)
(* C26: node read authorization                                            *)
(***************************************************************************)
\* The effective permission set of the live session of a bearer: the union of
\* the codes of the RolePermission rows over the roles of its user.
EffectivePermissions(bearer) ==
  {c \in PermissionCodes :
     \E s \in sessions, r \in RoleNames :
       /\ s.tokenHash = hashToken(bearer)
       /\ s.revokedAt = {}
       /\ s.expiresAt > now
       /\ <<s.userId, r>> \in userRoles
       /\ <<r, c>> \in rolePermissions}

\* The nodes a permission set lets its holder read.
ReadableNodes(perms) ==
  IF <<"nodes:read", 0>> \in perms
    THEN DOMAIN nodeRows
    ELSE {n \in DOMAIN nodeRows : <<"node:read", n>> \in perms}

\* C26: for a live session GET /nodes answers 200 with all nodes when the
\* effective permission set holds nodes:read, 200 with exactly the nodes n
\* whose node:read:<n> the set holds when it holds some node:read code but not
\* nodes:read, and 403 when it holds neither; the body never holds a node the
\* session cannot read. GET /nodes/:nodeId/metrics answers 200 exactly when
\* the set holds nodes:read or node:read:<nodeId>. A request without a live
\* session is answered 401 by both.
C26_NodeReadAuthorization ==
  \A bearer \in SessionValues \cup {NoBearer} :
    LET perms == EffectivePermissions(bearer)
        live == bearer # NoBearer /\ findActiveSessionByTokenHash(hashToken(bearer)) # {}
        reply == GetNodesReply(bearer)
    IN /\ ~live => /\ reply.status = 401
                   /\ \A nodeId \in NodeIds \cup {0} :
                        GetNodeMetricsStatus(bearer, nodeId) = 401
       /\ live =>
            /\ reply.status = 200 => reply.body = ReadableNodes(perms)
            /\ reply.status = 403 <=>
                 ~\E c \in perms : c[1] \in {"nodes:read", "node:read"}
            /\ reply.status \in {200, 403}
            /\ \A nodeId \in NodeIds \cup {0} :
                 GetNodeMetricsStatus(bearer, nodeId) =
                   IF <<"nodes:read", 0>> \in perms \/ <<"node:read", nodeId>> \in perms
                     THEN 200 ELSE 403

\* Witness: a node exists, and a live session whose user holds two roles has,
\* through them, node:read for another id and node:write for the node, but
\* not nodes:read: GET /nodes answers 200 with no node.
C26_Witness ==
  \E bearer \in SessionValues :
    /\ nodeRows # << >>
    /\ <<"nodes:read", 0>> \notin EffectivePermissions(bearer)
    /\ <<"node:write", 1>> \in EffectivePermissions(bearer)
    /\ \E s \in findActiveSessionByTokenHash(hashToken(bearer)) :
         {r \in RoleNames : <<s.userId, r>> \in userRoles} = RoleNames
    /\ GetNodesReply(bearer) = Reply(200, {})

(***************************************************************************)
(* C27: a failed login does not tell whether the address has an account    *)
(***************************************************************************)
\* The User table without the rows of the given users.
WithoutUsers(gone) == [u \in DOMAIN users \ gone |-> users[u]]

\* C27: for every address that has an account and every password that is not
\* the account's (any password when the account has none), the login is
\* answered as it is in the state that differs only in that the account does
\* not exist: 401 invalid credentials in both (the body of a login answer is
\* fixed by its status).
C27_LoginOpacity ==
  \A email \in Emails, password \in Passwords :
    \A u \in LoginUser(email) :
      ~PasswordVerifies(u, password) =>
        /\ LoginStatus(users, email, password)
             = LoginStatus(WithoutUsers({u}), email, password)
        /\ LoginReply(email, password) = Reply(401, "invalid credentials")

\* Witness: a login with a wrong password has been refused for an account
\* that has a password, and an address without an account is at hand.
C27_Witness ==
  /\ \E u \in DOMAIN users :
       /\ users[u].passwordHash # NoPasswordHash
       /\ users[u].failedLoginCount > 0
  /\ \E email \in Emails : LoginUser(email) = {}

(***************************************************************************)
(* C28: logout is idempotent                                               *)
(***************************************************************************)
\* C28: a logout that carries a bearer is answered 200 ok whether the bearer
\* is unknown, revoked or live; it changes no session row but the unrevoked
\* row of the bearer, so for an unknown or revoked bearer it changes nothing
\* and a revokedAt on record is never overwritten; and right after a logout a
\* second logout of the same bearer would leave the Session table as it is.
C28_LogoutIdempotent ==
  /\ [](\A bearer \in SessionValues : LogoutReply(bearer) = Reply(200, "ok"))
  /\ [][\A bearer \in SessionValues :
          Logout(bearer) =>
            /\ \A s \in sessions :
                 (s.tokenHash # hashToken(bearer) \/ s.revokedAt # {})
                   => s \in sessions'
            /\ (\A s \in sessions :
                  s.tokenHash = hashToken(bearer) => s.revokedAt # {})
                 => sessions' = sessions
            /\ Cardinality(sessions') = Cardinality(sessions)
            /\ revokeByTokenHash(hashToken(bearer))' = sessions']_vars

\* Witness: a session was revoked by a logout at an earlier hour than now, so
\* that a further logout of its bearer would write another revokedAt if it
\* wrote any.
C28_Witness ==
  \E s \in sessions :
    /\ s.revokedAt # {}
    /\ \A t \in s.revokedAt : t < now
    /\ s.expiresAt > now

(***************************************************************************)
(* C29: the limit of listRecentByNode                                      *)
(***************************************************************************)
\* min(max(1, limit), 300) for an integer limit.
ClampedLimit(i) ==
  LET atLeastOne == IF i < 1 THEN 1 ELSE i
  IN IF atLeastOne > 300 THEN 300 ELSE atLeastOne

\* The positions of the Metric rows of a node.
MetricRowsOf(nodeId) == {i \in 1..Len(metrics) : metrics[i].nodeId = nodeId}

\* r holds at most `most` rows, all of them there are when fewer exist; they
\* are distinct Metric rows of the node, none of the rows left out is newer
\* than a row returned, and they come oldest first.
NewestRowsOldestFirst(r, nodeId, most) ==
  LET idx == MetricRowsOf(nodeId)
      ids == {r[k].id : k \in 1..Len(r)}
  IN /\ Len(r) <= most
     /\ Len(r) = (IF most < Cardinality(idx) THEN most ELSE Cardinality(idx))
     /\ Cardinality(ids) = Len(r)
     /\ \A k \in 1..Len(r) :
          \E i \in idx : /\ metrics[i].id = r[k].id
                         /\ metrics[i].createdAt = r[k].at
                         /\ metrics[i].ts = r[k].ts
     /\ \A i \in idx :
          metrics[i].id \notin ids
            => \A k \in 1..Len(r) : metrics[i].createdAt <= r[k].at
     /\ \A a, b \in 1..Len(r) : a < b => r[a].at <= r[b].at

\* C29: for every integer limit the row limit listRecentByNode uses is
\* min(max(1, limit), 300), for every limit it is between 1 and 300, and
\* every result of listRecentByNode holds at most that many rows: the newest
\* Metric rows of the node, oldest first; the body GET /nodes/:nodeId/metrics
\* answers with for limit 0 and for limit 10 000 is such a result.
C29_RecentMetricsLimit ==
  /\ \A limit \in LimitInputs \ {<< >>} :
       /\ limit[2] = 0 => safeLimit(limit) = ClampedLimit(limit[1])
       /\ safeLimit(limit) \in 1..300
  /\ \A nodeId \in NodeIds, limit \in LimitInputs \ {<< >>} :
       \A r \in listRecentByNode(nodeId, limit) :
         NewestRowsOldestFirst(r, nodeId, safeLimit(limit))
  /\ \A nodeId \in NodeIds, bearer \in SessionValues :
       \A limit \in {<<0, 0>>, <<10000, 0>>} :
         \A reply \in GetNodeMetricsReplies(bearer, nodeId, limit) :
           reply.status = 200 => reply.body \in listRecentByNode(nodeId, limit)

\* Witness: the node has two Metric rows created in different hours and the
\* session may read it: with limit 0 the answer is the newer row alone, with
\* limit 10 000 both rows, the older one first.
C29_Witness ==
  \E nodeId \in NodeIds, bearer \in SessionValues :
    /\ Cardinality(MetricRowsOf(nodeId)) = 2
    /\ \E i, j \in MetricRowsOf(nodeId) : metrics[i].createdAt < metrics[j].createdAt
    /\ \A reply \in GetNodeMetricsReplies(bearer, nodeId, <<0, 0>>) :
         reply.status = 200 /\ Len(reply.body) = 1
    /\ \A reply \in GetNodeMetricsReplies(bearer, nodeId, <<10000, 0>>) :
         reply.status = 200 /\ Len(reply.body) = 2

(***************************************************************************)
(* C30: the initial snapshot of a connection                               *)
(***************************************************************************)
\* The positions of the initial snapshots among the frames sent to a socket.
InitialFrames(s) == {k \in 1..Len(frames[s]) : frames[s][k].kind = "initial"}

\* No socket is sent more than one initial snapshot.
AtMostOneInitialFrame == \A s \in Sockets : Cardinality(InitialFrames(s)) <= 1

\* A socket has been sent the snapshot of a broadcast and, after it, an
\* initial snapshot that was read from an older state of the store.
InitialFrameAfterNewerBroadcast ==
  \E s \in Sockets :
    \E j, k \in 1..Len(frames[s]) :
      /\ j < k
      /\ frames[s][j].kind = "broadcast"
      /\ frames[s][k].kind = "initial"
      /\ frames[s][k].ver < frames[s][j].ver

\* A connection ended without any initial snapshot: its read is over, the
\* socket is registered and OPEN, and no initial frame was sent.
RegisteredWithoutSnapshot ==
  \E s \in Sockets :
    /\ s \in clients
    /\ readyState[s] = "OPEN"
    /\ \A r \in reads : r.kind = "initial" => r.ws # s
    /\ InitialFrames(s) = {}

\* C30: every socket is sent exactly one initial snapshot on its connection,
\* and a socket is in the clients set only after that snapshot has been sent.
C30_SnapshotBeforeRegistration ==
  \A s \in Sockets :
    /\ Cardinality(InitialFrames(s)) <= 1
    /\ s \in clients => Cardinality(InitialFrames(s)) = 1

(***************************************************************************)
(* C31: a failed snapshot read, the close event, sockets that are not OPEN *)
(***************************************************************************)
\* The step ends the snapshot read of a broadcast in failure.
BroadcastReadFails ==
  \E b \in 1..Len(bhist) :
    /\ bhist[b].status = "reading"
    /\ b \in DOMAIN bhist'
    /\ bhist'[b].status = "failed"

\* C31: a step that fails the snapshot read of a broadcast removes no socket
\* from the clients set and sends no frame; after every change signal a
\* broadcast timer is pending, and a timer that fires with a socket connected
\* starts a snapshot read, whatever failed before; a socket leaves the clients
\* set only in the step of its close event; a frame is sent only to a socket
\* that is OPEN.
C31_FailedReadKeepsSockets ==
  [][/\ BroadcastReadFails => clients' = clients /\ frames' = frames
     /\ storeVer' # storeVer => broadcastTimer' /\ timers' = 1
     /\ (timers' < timers /\ clients # {})
          => \E r \in reads' \ reads : r.kind = "broadcast" /\ r.from = storeVer
     /\ \A s \in Sockets :
          /\ (s \in clients /\ s \notin clients')
               => readyState[s] # "CLOSED" /\ readyState'[s] = "CLOSED"
          /\ Len(frames'[s]) > Len(frames[s])
               => readyState[s] = "OPEN" /\ readyState'[s] = "OPEN"]_vars

\* Witness: the snapshot read of a broadcast failed while a socket was
\* connected, the socket is still in the clients set, and a later change was
\* broadcast to it.
C31_Witness ==
  \E a, b \in 1..Len(bhist) : \E s \in clients :
    /\ a < b
    /\ bhist[a].status = "failed"
    /\ bhist[b].status = "sent"
    /\ s \in bhist[b].sentTo
    /\ \E k \in 1..Len(frames[s]) :
         frames[s][k].kind = "broadcast" /\ frames[s][k].bid = b

(***************************************************************************)
(* C32: when ingest signals the roster                                     *)
(***************************************************************************)
\* The step belongs to the handling of a broker message.
IngestStep == delivered' # delivered \/ inflight' # inflight

\* The step commits a Metric row.
MetricCommitted == Len(metrics') > Len(metrics)

\* The step changes the hash stored for some node.
StoredHashChanged == \E n \in NodeIds : StoredHash(n)' # StoredHash(n)

\* The step completes an upsertNodeSystemInfo call whose payload hash differs
\* from the hash that call read.
ReadHashDiffers ==
  \E h \in inflight : UpsertReturns(h) /\ h.existing # {h.hash}

\* markNodesChanged() relative to the hash a call read: a step of ingest
\* schedules a broadcast only when it commits a Metric row or completes an
\* upsert whose payload hash differs from the hash read, and after such a
\* step a broadcast timer is pending.
SignalFollowsReadHash ==
  [][IngestStep =>
       /\ (MetricCommitted \/ ReadHashDiffers) => broadcastTimer'
       /\ timers' > timers => (MetricCommitted \/ ReadHashDiffers)]_vars

\* C32: a step of ingest that commits a Metric row or changes the stored
\* inventory hash leaves a broadcast timer pending, and no other step of
\* ingest (a dropped message, an inventory message that leaves the stored
\* hash as it is) schedules a broadcast.
C32_SignalExactlyOnChange ==
  [][IngestStep =>
       /\ (MetricCommitted \/ StoredHashChanged) => broadcastTimer'
       /\ timers' > timers => (MetricCommitted \/ StoredHashChanged)]_vars

(***************************************************************************)
(* C33: the order of the snapshots a socket receives                       *)
(***************************************************************************)
\* A socket has been sent the snapshots of two broadcasts, the later frame
\* read from an older state of the store than the earlier one.
BroadcastFrameAfterNewerBroadcast ==
  \E s \in Sockets :
    \E j, k \in 1..Len(frames[s]) :
      /\ j < k
      /\ frames[s][j].kind = "broadcast"
      /\ frames[s][k].kind = "broadcast"
      /\ frames[s][k].ver < frames[s][j].ver

\* C33: the frames a socket has been sent are in non-decreasing order of the
\* store state their snapshot was read from.
C33_FramesNeverGoBack ==
  \A s \in Sockets :
    \A j, k \in 1..Len(frames[s]) :
      j < k => frames[s][j].ver <= frames[s][k].ver

(***************************************************************************)
(* C34: no change signal is lost                                           *)
(***************************************************************************)
\* The number of change signals made before the timer of broadcast b fired.
SignalsBefore(b) ==
  LET Sum[i \in 0..b] == IF i = 0 THEN 0 ELSE Sum[i - 1] + bhist[i].n
  IN Sum[b]

\* The timer of some broadcast fired after the v-th change signal.
FiredAfterSignal(v) == \E b \in 1..Len(bhist) : SignalsBefore(b) >= v

\* C34: every change signal is eventually followed by the firing of a
\* broadcast timer; a timer that fires with a socket connected starts a
\* snapshot read after every signal made so far, and the frames of that
\* broadcast hold a state of the store not older than those signals; a signal
\* made while no timer is pending schedules one, also while the snapshot read
\* of an earlier broadcast is in progress.
C34_NoLostUpdate ==
  /\ \A v \in 1..MaxChanges : (storeVer >= v) ~> FiredAfterSignal(v)
  /\ [](\A b \in 1..Len(bhist) :
          /\ bhist[b].status = "skipped" => bhist[b].sentTo = {}
          /\ \A r \in reads :
               (r.kind = "broadcast" /\ r.bid = b) => r.from >= SignalsBefore(b)
          /\ \A s \in Sockets : \A k \in 1..Len(frames[s]) :
               (frames[s][k].kind = "broadcast" /\ frames[s][k].bid = b)
                 => frames[s][k].ver >= SignalsBefore(b))
  /\ [][/\ (timers' < timers /\ clients # {})
             => /\ bhist'[Len(bhist')].status = "reading"
                /\ \E r \in reads' \ reads :
                     r.kind = "broadcast" /\ r.bid = Len(bhist') /\ r.from = storeVer
        /\ (storeVer' # storeVer /\ timers = 0) => timers' = 1]_vars

\* Witness: a change was signalled while the snapshot read of the first
\* broadcast was in progress; it got a broadcast of its own, which has been
\* sent to a socket while the first read is still pending.
C34_Witness ==
  /\ \E r \in reads : r.kind = "broadcast" /\ r.bid = 1
  /\ Len(bhist) >= 2
  /\ bhist[2].status = "sent"
  /\ bhist[2].sentTo # {}

(***************************************************************************)
(* C35: one token, concurrent requests                                     *)
(***************************************************************************)
\* C35: for every setup or reset token, at most one of the set-password and
\* bootstrap-claim requests that present it writes a password.
C35_TokenSetsOnePassword == \A t \in TokenValues : passwordSets[t] <= 1

(***************************************************************************)
(* C36: concurrent role replacements                                       *)
(***************************************************************************)
\* The role replacements in flight.
RoleRequests == {q \in requests : q.kind = "roles"}

\* C36: when the last of the role replacements in flight completes and a
\* credentialed admin existed before that step, a credentialed admin exists
\* after it.
C36_ConcurrentAdminFloor ==
  [][(/\ hasCredentialedAdmin
      /\ RoleRequests # {}
      /\ RoleRequests' = {})
       => hasCredentialedAdmin']_vars

(***************************************************************************)
(* C37: who ends the bootstrap                                             *)
(***************************************************************************)
\* The step consumes a token.
TokenConsumed ==
  \E t \in authTokens :
    /\ t.consumedAt = {}
    /\ \E c \in authTokens' : c.id = t.id /\ c.consumedAt # {}

\* The step is a successful POST /auth/bootstrap/claim: a token is consumed
\* and no set-password succeeded.
ClaimSucceeds == TokenConsumed /\ spent' = spent

\* The step is a successful POST /auth/set-password.
SetPasswordSucceeds == spent' # spent

\* Every step that ends the bootstrap is a successful claim or a successful
\* set-password.
BootstrapEndsByToken ==
  [][(~hasCredentialedAdmin /\ hasCredentialedAdmin')
       => (ClaimSucceeds \/ SetPasswordSucceeds)]_vars

\* C37: the answer of GET /auth/bootstrap/status changes from
\* needsBootstrap:true to needsBootstrap:false only in a step that is a
\* successful bootstrap claim, and a successful set-password gives no
\* passwordless admin a password.
C37_OnlyClaimEndsBootstrap ==
  [][/\ (~hasCredentialedAdmin /\ hasCredentialedAdmin') => ClaimSucceeds
     /\ SetPasswordSucceeds =>
          \A u \in DOMAIN users :
            isBootstrapAdmin(u) =>
              (u \in DOMAIN users' /\ users'[u].passwordHash = NoPasswordHash)]_vars

(***************************************************************************)
(* C38: what prestart deletes                                              *)
(***************************************************************************)
\* The users a step deletes.
DeletedUsers == DOMAIN users \ DOMAIN users'

\* Every user a step deletes is registered under the bootstrap address.
DeletesOnlyReservedAddress ==
  [][\A u \in DeletedUsers :
       users[u].emailNormalized = toLowerCase(BOOTSTRAP_EMAIL)]_vars

\* C38: every user that prestart deletes is registered under the bootstrap
\* address, has no password and is an admin.
C38_PrestartDeletesShellOnly ==
  [][\A u \in DeletedUsers :
       /\ users[u].emailNormalized = toLowerCase(BOOTSTRAP_EMAIL)
       /\ users[u].passwordHash = NoPasswordHash]_vars

(***************************************************************************)
(* C39: a session that has ended                                           *)
(***************************************************************************)
\* The close event of the session's client has been handled and no later
\* session has started.
SessionEnded == client = "closed"

OpensConnection == client # "connecting" /\ client' = "connecting"

\* A stop requested during the reconnect sleep, or while a session runs, is
\* followed by no new connection from there.
StopDuringSleepOpensNothing ==
  [][(stopRequested /\ pc \in {"sleep", "session", "stopped"})
       => ~OpensConnection]_vars

\* C40: no step taken after stop has been requested opens a broker
\* connection.
C40_NoConnectionAfterStop ==
  [][stopRequested => ~OpensConnection]_vars
====
